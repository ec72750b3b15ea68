------------------------------- MODULE MCWatcher -------------------------------
(* An instance of Watcher for TLC: every way to save, one bad version, and two   *)
(* of which a part is a config, the bad one and another.                         *)
EXTENDS Watcher

AllEditors == {"truncating", "renaming", "atomic"}
OneBad == {2}
TwoHalves == {2, 3}
================================================================================
