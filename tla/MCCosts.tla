-------------------------------- MODULE MCCosts --------------------------------
(***************************************************************************)
(* An instance for TLC, in five scopes.  Two workdirs share a project      *)
(* directory, one of the models has a price of the configuration, one is   *)
(* unknown, and the name of one skill contains another's.  Configuration   *)
(* 2 has another price and no longer the job of Codex.                     *)
(***************************************************************************)
EXTENDS Costs

Job(engine, workdir) == [type |-> "skill", engine |-> engine, workdir |-> workdir]
TheJobs == <<Job("c", "/a/b"), Job("c", "/a-b"), Job("x", "/a/b"),
             [type |-> "script", engine |-> "", workdir |-> ""]>>
AllJobs == <<TheJobs, SubSeq(TheJobs, 1, 2)>>
TheKinds == [i \in 1 .. 2 |-> [c |-> "claude", x |-> "codex"]]
TheSlugs == ("/a/b" :> "-a-b") @@ ("/a-b" :> "-a-b")
TheDirs == [f \in ClaudeFiles |-> "-a-b"]

TheNormals == ("" :> "") @@ ("claude-opus-4-6-20250404" :> "opus-4-6") @@ ("gpt-5.5" :> "gpt-5.5")
TheFamilies == ("" :> "none") @@ ("opus-4-6" :> "opus") @@ ("gpt-5.5" :> "none")
TheBuiltIn == ("sonnet-4" :> 3) @@ ("opus-4.5" :> 5) @@ ("opus-4-6" :> 5)
TheConfigured == <<("opus-4-6" :> 0), ("gpt-5.5" :> 1)>>

TheMentions == ("x-reply" :> {"x-reply"}) @@ ("x-reply-eval" :> {"x-reply-eval", "x-reply"})
TheKeywords == <<"x-reply-eval", "x-reply">>

\* Two sessions in a directory, one of which may be removed.
TwoFiles == [files |-> {"s", "t"}, lines |-> 4, removed |-> 1, failed |-> 0, days |-> 1, ids |-> {"m"},
             models |-> {"gpt-5.5"}, prompts |-> {"x-reply-eval"}, configs |-> {1}]

\* One session with two messages, prices and prompts.
TwoMessages == [files |-> {"s"}, lines |-> 4, removed |-> 0, failed |-> 0, days |-> 1, ids |-> {"m", "n"},
                models |-> {"", "claude-opus-4-6-20250404"}, prompts |-> {"x-reply", "x-reply-eval"}, configs |-> {1}]

\* A session of each engine, and two days.
BothEngines == [files |-> {"s", "u"}, lines |-> 5, removed |-> 0, failed |-> 0, days |-> 2, ids |-> {"m"},
                models |-> {"gpt-5.5"}, prompts |-> {"x-reply-eval"}, configs |-> {1}]

\* A session of each engine, one of which may not be read.
Failures == [files |-> {"s", "u"}, lines |-> 5, removed |-> 0, failed |-> 1, days |-> 0, ids |-> {"m"},
             models |-> {"gpt-5.5"}, prompts |-> {"x-reply"}, configs |-> {1}]

\* A session of each engine, and two configurations.
Updates == [files |-> {"s", "u"}, lines |-> 5, removed |-> 0, failed |-> 0, days |-> 0, ids |-> {"m"},
            models |-> {"gpt-5.5"}, prompts |-> {"x-reply"}, configs |-> {1, 2}]

TheScopes == {TwoFiles, TwoMessages, BothEngines, Failures, Updates}
================================================================================
