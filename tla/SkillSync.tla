------------------------------- MODULE SkillSync -------------------------------
(***************************************************************************)
(* SkillManager.EnsureSymlinks (src/internal/skills.go:45-132) makes a     *)
(* link to every skill in every global directory, one file system call at a*)
(* time.  Any call may fail, and users work in the same directories.       *)
(***************************************************************************)
EXTENDS Naturals, FiniteSets

CONSTANTS
  Dir, Skill,
  MaxEdits   \* bound: edits by users

ASSUME SkillAssumption == MaxEdits \in Nat /\ IsFiniteSet(Dir) /\ IsFiniteSet(Skill)

VARIABLES
  at,          \* what is in a global directory under the name of a skill
  skills,      \* the directories in skillsDir but for those that begin with . or _
  globalDirs,  \* SkillManager.globalDirs
  sync,        \* a call of EnsureSymlinks
  edits,
  \* history
  meddled,     \* a user was active since the sync began
  failed,      \* a call of the sync has failed
  before       \* what was there when it began

vars == <<at, skills, globalDirs, sync, edits, meddled, failed, before>>

\* Nothing, the link to the skill, a link to elsewhere, a file, or a directory that
\* is not empty.
Kind == {"none", "link", "other link", "file", "dir"}

Idle == [pc |-> "idle", dirs |-> {}, entries |-> {}, left |-> {}, names |-> {},
         at |-> <<>>, updated |-> 0]

TypeOK ==
  /\ at \in [Dir -> [Skill -> Kind]]
  /\ skills \subseteq Skill /\ globalDirs \subseteq Dir
  /\ sync.pc \in {"idle", "dirs", "names", "removing", "linking", "done"}
  /\ sync.dirs \subseteq Dir /\ sync.left \subseteq sync.dirs
  /\ sync.entries \subseteq Skill /\ sync.names \subseteq sync.entries
  /\ sync.updated \in 0..Cardinality(sync.dirs \X sync.entries)
  /\ edits \in 0..MaxEdits /\ meddled \in BOOLEAN /\ failed \in BOOLEAN

Init ==
  /\ at \in [Dir -> [Skill -> Kind]]
  /\ skills \in SUBSET Skill /\ globalDirs \in SUBSET Dir
  /\ sync = Idle
  /\ edits = 0 /\ meddled = FALSE /\ failed = FALSE /\ before = at

--------------------------------------------------------------------------------
(* Users *)

Edit ==
  /\ edits < MaxEdits
  /\ edits' = edits + 1
  /\ meddled' = TRUE
  /\ UNCHANGED <<globalDirs, sync, failed, before>>

EditDir ==
  /\ Edit /\ UNCHANGED skills
  /\ \E d \in Dir, s \in Skill, k \in Kind : at' = [at EXCEPT ![d][s] = k]

EditSkill ==
  /\ Edit /\ UNCHANGED at
  /\ \E s \in Skill : skills' = IF s \in skills THEN skills \ {s} ELSE skills \cup {s}

--------------------------------------------------------------------------------
(* EnsureSymlinks *)

SetGlobalDirs ==
  /\ sync.pc = "idle"
  /\ globalDirs' \in SUBSET Dir \ {globalDirs}
  /\ UNCHANGED <<at, skills, sync, edits, meddled, failed, before>>

\* Without directories, or when skillsDir cannot be read, it returns an error at once.
EnsureSymlinks ==
  /\ sync.pc = "idle" /\ globalDirs # {}
  /\ sync' = [Idle EXCEPT !.pc = "dirs", !.dirs = globalDirs, !.left = globalDirs,
                          !.entries = skills]
  /\ meddled' = FALSE /\ failed' = FALSE /\ before' = at
  /\ UNCHANGED <<at, skills, globalDirs, edits>>

\* One step of the sync; ok says whether its calls succeed.
InSync(pc, ok) ==
  /\ sync.pc = pc
  /\ failed' = (failed \/ ~ok)
  /\ UNCHANGED <<skills, globalDirs, edits, meddled, before>>

\* MkdirAll, and the loop over the entries.
NextDir ==
  /\ UNCHANGED at
  /\ \E d \in sync.left :
       \/ /\ InSync("dirs", TRUE)
          /\ sync' = [sync EXCEPT !.pc = "names", !.left = @ \ {d}, !.names = sync.entries,
                                  !.at = <<d>>]
       \/ /\ InSync("dirs", FALSE)
          /\ sync' = [sync EXCEPT !.left = @ \ {d}]

\* Mutant: every link is made again.
CheckRemaking ==
  /\ InSync("names", TRUE) /\ UNCHANGED at
  /\ \E s \in sync.names :
       LET found == at[sync.at[1]][s] IN
       sync' = [sync EXCEPT !.names = @ \ {s}, !.at = <<@[1], s>>,
                            !.pc = CASE found = "none" -> "linking"
                                     [] found \in {"link", "other link"} -> "removing"
                                     [] OTHER -> "names"]

\* Readlink and Lstat.
Check ==
  /\ InSync("names", TRUE) /\ UNCHANGED at
  /\ \E s \in sync.names :
       LET found == at[sync.at[1]][s] IN
       sync' = [sync EXCEPT !.names = @ \ {s}, !.at = <<@[1], s>>,
                            !.pc = CASE found = "none" -> "linking"
                                     [] found = "other link" -> "removing"
                                     [] OTHER -> "names"]

Put(kind) == at' = [at EXCEPT ![sync.at[1]][sync.at[2]] = kind]

Found == at[sync.at[1]][sync.at[2]]

\* Mutant: what is removed is counted as well.
RemoveCounted ==
  /\ sync' = [sync EXCEPT !.pc = "linking", !.updated = @ + 1]
  /\ \/ InSync("removing", TRUE) /\ Found # "dir" /\ Put("none")
     \/ InSync("removing", FALSE) /\ UNCHANGED at

\* Mutant: os.RemoveAll.
RemoveAll ==
  /\ sync' = [sync EXCEPT !.pc = "linking"]
  /\ \/ InSync("removing", TRUE) /\ Put("none")
     \/ InSync("removing", FALSE) /\ UNCHANGED at

\* os.Remove takes whatever is there by now, but no directory that is not empty.  Its
\* error is not looked at.
Remove ==
  /\ sync' = [sync EXCEPT !.pc = "linking"]
  /\ \/ InSync("removing", TRUE) /\ Found # "dir" /\ Put("none")
     \/ InSync("removing", FALSE) /\ UNCHANGED at

Symlink ==
  \/ /\ InSync("linking", TRUE) /\ Found = "none"
     /\ Put("link")
     /\ sync' = [sync EXCEPT !.pc = "names", !.updated = @ + 1]
  \/ /\ InSync("linking", FALSE)
     /\ sync' = [sync EXCEPT !.pc = "names"]
     /\ UNCHANGED at

\* Mutant: the names that are left are forgotten when a link has been made.
EndDirEarly ==
  /\ InSync("names", TRUE) /\ (sync.names = {} \/ sync.updated > 0)
  /\ sync' = [sync EXCEPT !.pc = "dirs"]
  /\ UNCHANGED at

EndDir ==
  /\ InSync("names", TRUE) /\ sync.names = {}
  /\ sync' = [sync EXCEPT !.pc = "dirs"]
  /\ UNCHANGED at

\* The number of links goes to the caller.
Return ==
  /\ InSync("dirs", TRUE) /\ sync.left = {}
  /\ sync' = [sync EXCEPT !.pc = "done"]
  /\ UNCHANGED at

Forget ==
  /\ InSync("done", TRUE)
  /\ sync' = Idle
  /\ UNCHANGED at

SyncStep ==
  \/ EnsureSymlinks \/ NextDir \/ Check \/ Remove \/ Symlink \/ EndDir \/ Return \/ Forget

Next ==
  \/ EditDir \/ EditSkill \/ SetGlobalDirs \/ SyncStep

Spec == Init /\ [][Next]_vars

--------------------------------------------------------------------------------
(* Properties *)

\* A sync that nobody disturbed and whose calls succeeded has made every skill
\* reachable from every directory, or found the user's own files there
\* (skills.go:78-132).
SyncedSkillsAreThere ==
  sync.pc = "done" /\ ~meddled /\ ~failed =>
    \A d \in sync.dirs, s \in sync.entries : at[d][s] \in {"link", "file", "dir"}

\* skills.go:118: "Exists but not a symlink (real dir) - skip to avoid data loss".
\* No sync removes a directory with something in it, even when a user has put it
\* in the place of a link that the sync was about to remove.
RealDirsSurvive ==
  [][\A d \in Dir, s \in Skill :
       at[d][s] = "dir" /\ at'[d][s] # "dir" => edits' # edits]_vars

\* Whatever fails, a sync that nobody disturbs takes away no right link, file or
\* directory: only a link to elsewhere can be lost, between Remove and a Symlink that
\* fails (skills.go:105-121).
OnlyOtherLinksAreLost ==
  ~meddled /\ sync.pc # "idle" =>
    \A d \in Dir, s \in Skill :
      at[d][s] # before[d][s] => before[d][s] \in {"none", "other link"}
================================================================================
