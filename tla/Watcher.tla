-------------------------------- MODULE Watcher --------------------------------
(***************************************************************************)
(* The path of a changed config file to applyConfigReload: the kernel's    *)
(* queue of file events, the debounce of Watcher.Watch                     *)
(* (src/internal/watcher.go), and the callback in src/main.go that reads   *)
(* the file.  Everybody may write the file at any time.                    *)
(*                                                                         *)
(* The versions of the file are numbered in the order in which they are    *)
(* begun.  A version may be written in two parts, and what is there of it  *)
(* in between may parse and validate.  What a reload does is module        *)
(* ConfigReload; here it takes effect or is refused, as that module's      *)
(* AllOrNothing proves.                                                    *)
(***************************************************************************)
EXTENDS Naturals, Sequences

CONSTANTS
  MaxSaves,     \* bound on the versions written after start-up
  BadVersions,  \* the versions that LoadConfig refuses
  GoodHalves,   \* the versions of which it accepts the first part alone
  Editors       \* how the file is saved

ASSUME WatcherAssumption ==
  /\ MaxSaves \in Nat
  /\ BadVersions \subseteq 1..MaxSaves /\ GoodHalves \subseteq 1..MaxSaves
  /\ Editors \subseteq {"truncating", "renaming", "atomic"}

\* How much of a version the file has.
Content == [version : 0..MaxSaves, part : {"none", "half", "whole"}]

Whole(v) == [version |-> v, part |-> "whole"]

VARIABLES
  file,     \* the content of the file
  saves,    \* the last version that was begun
  watched,  \* whether the file at the path is the one that is watched
  events,   \* the events that Watch has not received
  recent,   \* less than 500 ms have passed since lastEvent
  wpc,      \* where the watcher's goroutine, or main before it, is
  newCfg,   \* the config that the callback loaded last
  active,   \* the config that is in effect
  missed    \* history: the contents that no event announced, whose event
            \* was debounced, or whose reload was refused

vars == <<file, saves, watched, events, recent, wpc, newCfg, active, missed>>

\* Mutant: Validate is not called.
LoadableUnvalidated(content) == content.part # "none"

\* LoadConfig takes what parses and validates; an empty file does not.
Loadable(content) ==
  \/ content.part = "whole" /\ content.version \notin BadVersions
  \/ content.part = "half" /\ content.version \in GoodHalves

\* Only what LoadConfig accepts is loaded or in effect (watcher.go:28-53).
TypeOK ==
  /\ file \in Content /\ saves \in 0..MaxSaves
  /\ \A c \in {newCfg, active} :
       /\ c \in Content /\ c.part # "none"
       /\ IF c.part = "half" THEN c.version \in GoodHalves ELSE c.version \notin BadVersions
  /\ events \in Seq({"write", "remove"})
  /\ watched \in BOOLEAN /\ recent \in BOOLEAN
  /\ wpc \in {"starting", "waiting", "fired", "loaded"}
  /\ missed \subseteq Content

\* main has loaded version 0 and does not watch the file yet.
Init ==
  /\ saves = 0
  /\ file = Whole(0) /\ newCfg = file /\ active = file
  /\ watched = FALSE
  /\ events = <<>>
  /\ recent = FALSE
  /\ wpc = "starting"
  /\ missed = {}

--------------------------------------------------------------------------------
(* Whoever edits the file.  inotify merges an event with an equal one that  *)
(* is still the last of its queue.                                          *)

Notify(event, content) ==
  \/ /\ watched
     /\ \/ events' = Append(events, event)
        \/ /\ Len(events) > 1 /\ events[Len(events)] = event
           /\ UNCHANGED events
     /\ UNCHANGED missed
  \/ /\ ~watched
     /\ missed' = missed \cup {content}
     /\ UNCHANGED events

\* The file has new content.
Put(content) ==
  /\ file' = content
  /\ saves' = content.version
  /\ Notify("write", content)
  /\ UNCHANGED <<watched, recent, wpc, newCfg, active>>

\* os.WriteFile and most shells truncate the file and then write it, in one part or
\* in two.
Truncate ==
  /\ "truncating" \in Editors
  /\ saves < MaxSaves
  /\ Put([version |-> saves + 1, part |-> "none"])

WriteHalf ==
  /\ file.part = "none"
  /\ Put([file EXCEPT !.part = "half"])

WriteRest ==
  /\ file.part # "whole"
  /\ Put(Whole(file.version))

WriteAll ==
  /\ "atomic" \in Editors
  /\ saves < MaxSaves
  /\ Put(Whole(saves + 1))

\* The new file takes the name; the watched one is deleted, and its watch with it.
Replace ==
  /\ "renaming" \in Editors
  /\ saves < MaxSaves
  /\ saves' = saves + 1
  /\ file' = Whole(saves + 1)
  /\ watched' = FALSE
  /\ events' = IF watched THEN Append(events, "remove") ELSE events
  /\ missed' = missed \cup {file'}
  /\ UNCHANGED <<recent, wpc, newCfg, active>>

--------------------------------------------------------------------------------
(* The watcher's goroutine *)

NewWatcher ==
  /\ wpc = "starting"
  /\ watched' = TRUE
  /\ wpc' = "waiting"
  /\ UNCHANGED <<file, saves, events, recent, newCfg, active, missed>>

WindowEnds ==
  /\ recent
  /\ recent' = FALSE
  /\ UNCHANGED <<file, saves, watched, events, wpc, newCfg, active, missed>>

\* Mutant: the comparison of the debounce is inverted.
DebouncedInverted == ~recent

Debounced == recent

Receive ==
  /\ wpc = "waiting"
  /\ events # <<>>
  /\ events' = Tail(events)
  /\ IF Head(events) = "write" /\ ~Debounced
       THEN recent' = TRUE /\ wpc' = "fired"
       ELSE UNCHANGED <<recent, wpc>>
  /\ missed' = IF Head(events) = "write" /\ Debounced THEN missed \cup {file} ELSE missed
  /\ UNCHANGED <<file, saves, watched, newCfg, active>>

LoadConfig ==
  /\ wpc = "fired"
  /\ IF Loadable(file)
       THEN newCfg' = file /\ wpc' = "loaded"
       ELSE wpc' = "waiting" /\ UNCHANGED newCfg
  /\ UNCHANGED <<file, saves, watched, events, recent, active, missed>>

\* Mutant: events that arrive while a reload runs are discarded after it.
ApplyAndDrain ==
  /\ wpc = "loaded"
  /\ wpc' = "waiting"
  /\ active' = newCfg
  /\ events' = <<>>
  /\ UNCHANGED <<file, saves, watched, recent, newCfg, missed>>

\* Mutant: a reload that is refused falls back on the config of the start-up.
ApplyOrRestart ==
  /\ wpc = "loaded"
  /\ wpc' = "waiting"
  /\ active' \in {newCfg, Whole(0)}
  /\ missed' = missed \cup {newCfg}
  /\ UNCHANGED <<file, saves, watched, events, recent, newCfg>>

Apply ==
  /\ wpc = "loaded"
  /\ wpc' = "waiting"
  /\ \/ /\ active' = newCfg
        /\ UNCHANGED missed
     \/ /\ missed' = missed \cup {newCfg}
        /\ UNCHANGED active
  /\ UNCHANGED <<file, saves, watched, events, recent, newCfg>>

Edit == Truncate \/ WriteHalf \/ WriteRest \/ WriteAll \/ Replace

Watch == Receive \/ LoadConfig \/ Apply

Next == Edit \/ NewWatcher \/ WindowEnds \/ Watch

Spec == Init /\ [][Next]_vars

\* The goroutine runs, and time passes.
FairSpec == Spec /\ WF_vars(NewWatcher) /\ WF_vars(Watch) /\ WF_vars(WindowEnds)

--------------------------------------------------------------------------------
(* Properties *)

\* Content c has come after d.
Later(c, d) ==
  \/ c.version > d.version
  \/ c.version = d.version /\ c.part = "whole" /\ d.part = "half"

\* A reload never goes back to an older version, nor from a whole version to its first
\* part: one callback runs at a time, and reads what the file holds by then
\* (watcher.go:44, main.go:97-103).  It may take the first part of a version alone, if
\* that parses and validates.
ReloadsAdvance == [][active' # active => Later(active', active)]_vars

Quiet == wpc = "waiting" /\ events = <<>>

\* When nothing is left to do, the config in effect is the one in the file unless
\* that cannot be loaded, no event announced it, its last event fell into the
\* debounce window, or the reload refused it: no other interleaving of edits with
\* the callback loses an edit, or leaves the first part of a version in effect
\* (watcher.go:31-44, main.go:96-107).
StaleForAReason ==
  Quiet /\ Loadable(file) => active = file \/ file \in missed

\* An event outside the window makes the callback load what the file holds, unless
\* it is edited again; a config that could not be loaded does not end the watching
\* (watcher.go:37-44, main.go:96-101).
FreshEditIsLoaded ==
  \A c \in Content :
    Loadable(c) /\ file = c /\ wpc = "waiting" /\ ~recent /\ events # <<>> /\ Head(events) = "write"
      ~> newCfg = c \/ file # c
================================================================================
