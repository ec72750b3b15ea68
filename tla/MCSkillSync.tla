----------------------------- MODULE MCSkillSync -----------------------------
(***************************************************************************)
(* An instance for TLC: two directories, two skills and one edit by a user *)
(* at any moment.                                                          *)
(***************************************************************************)
EXTENDS SkillSync, TLC

CONSTANTS d1, d2, s1, s2

Symmetric == Permutations({d1, d2}) \cup Permutations({s1, s2})
================================================================================
