----------------------------- MODULE SkillSyncProofs -----------------------------
(* Theorems about SkillSync, for any directories, skills and number of edits. *)
EXTENDS SkillSync, Sequences, FiniteSetTheorems, TLAPS

\* As much of the types as the proofs need.
SyncRecord ==
  [pc : {"idle", "dirs", "names", "removing", "linking", "done"},
   dirs : SUBSET Dir, entries : SUBSET Skill, left : SUBSET Dir, names : SUBSET Skill,
   at : Seq(Dir \cup Skill), updated : Nat]

Typed ==
  /\ at \in [Dir -> [Skill -> Kind]] /\ before \in [Dir -> [Skill -> Kind]]
  /\ skills \subseteq Skill /\ globalDirs \subseteq Dir
  /\ sync \in SyncRecord
  /\ edits \in Nat

\* Where the sync is.
Placed ==
  /\ sync.pc \in {"names", "removing", "linking"} => sync.at[1] \in Dir
  /\ sync.pc \in {"removing", "linking"} => sync.at[2] \in Skill

\* Undisturbed, what Check saw is still there when Remove comes.
Checked == sync.pc = "removing" /\ ~meddled => Found = "other link"

IInv == Typed /\ Placed /\ Checked /\ OnlyOtherLinksAreLost

LEMMA Initially == Init => IInv
BY DEF Init, IInv, Typed, SyncRecord, Idle, Placed, Checked, OnlyOtherLinksAreLost

LEMMA EditKeeps == IInv /\ (EditDir \/ EditSkill \/ SetGlobalDirs) => IInv'
<1> SUFFICES ASSUME IInv, EditDir \/ EditSkill \/ SetGlobalDirs PROVE IInv'
  OBVIOUS
<1> USE DEF IInv
<1>1. CASE EditDir
  <2>1. Typed'
    BY <1>1 DEF EditDir, Edit, Typed
  <2>2. Placed' /\ Checked' /\ OnlyOtherLinksAreLost'
    BY <1>1 DEF EditDir, Edit, Placed, Checked, OnlyOtherLinksAreLost
  <2> QED
    BY <2>1, <2>2
<1>2. CASE EditSkill
  <2>1. Typed'
    BY <1>2 DEF EditSkill, Edit, Typed
  <2>2. Placed' /\ Checked' /\ OnlyOtherLinksAreLost'
    BY <1>2 DEF EditSkill, Edit, Placed, Checked, OnlyOtherLinksAreLost
  <2> QED
    BY <2>1, <2>2
<1>3. CASE SetGlobalDirs
  <2>1. Typed'
    BY <1>3 DEF SetGlobalDirs, Typed
  <2>2. Placed' /\ Checked' /\ OnlyOtherLinksAreLost'
    BY <1>3 DEF SetGlobalDirs, Placed, Checked, Found, OnlyOtherLinksAreLost
  <2> QED
    BY <2>1, <2>2
<1> QED
  BY <1>1, <1>2, <1>3

LEMMA BeginKeeps == IInv /\ EnsureSymlinks => IInv'
<1> SUFFICES ASSUME IInv, EnsureSymlinks PROVE IInv'
  OBVIOUS
<1>1. Typed'
  <2>1. sync' \in SyncRecord
    <3>1. sync' = [pc |-> "dirs", dirs |-> globalDirs, entries |-> skills,
                   left |-> globalDirs, names |-> {}, at |-> <<>>, updated |-> 0]
      BY DEF EnsureSymlinks, Idle
    <3> DEFINE nowhere == <<>>
    <3>2. nowhere \in Seq(Dir \cup Skill)
      OBVIOUS
    <3> HIDE DEF nowhere
    <3> QED
      BY <3>1, <3>2 DEF IInv, Typed, SyncRecord, nowhere
  <2> QED
    BY <2>1 DEF IInv, EnsureSymlinks, Typed
<1>2. Placed' /\ Checked' /\ OnlyOtherLinksAreLost'
  BY DEF EnsureSymlinks, Idle, Placed, Checked, OnlyOtherLinksAreLost
<1> QED
  BY <1>1, <1>2 DEF IInv

\* The steps that only look, or choose what comes next.
LEMMA LoopKeeps == IInv /\ (NextDir \/ Check \/ EndDir \/ Return \/ Forget) => IInv'
<1> SUFFICES ASSUME IInv, NextDir \/ Check \/ EndDir \/ Return \/ Forget PROVE IInv'
  OBVIOUS
<1> USE DEF IInv, InSync, Typed, SyncRecord
<1>1. CASE NextDir
  <2>1. PICK d \in sync.left :
          \/ /\ InSync("dirs", TRUE)
             /\ sync' = [sync EXCEPT !.pc = "names", !.left = @ \ {d},
                                     !.names = sync.entries, !.at = <<d>>]
          \/ /\ InSync("dirs", FALSE)
             /\ sync' = [sync EXCEPT !.left = @ \ {d}]
    BY <1>1 DEF NextDir
  <2>2. <<d>> \in Seq(Dir \cup Skill) /\ <<d>>[1] = d
    BY <2>1
  <2> DEFINE place == <<d>>
  <2> HIDE DEF place
  <2>3. /\ sync' \in SyncRecord
        /\ (sync'.pc = "names" /\ sync'.at = place) \/ sync'.pc = "dirs"
        /\ sync.pc # "idle" /\ UNCHANGED <<at, skills, globalDirs, edits, meddled, before>>
    <3>1. CASE InSync("dirs", TRUE) /\ sync'.pc = "names"
      <4>1. sync' = [sync EXCEPT !.pc = "names", !.left = @ \ {d}, !.names = sync.entries,
                                 !.at = place]
        BY <2>1, <3>1 DEF place
      <4>2. place \in Seq(Dir \cup Skill)
        BY <2>2 DEF place
      <4> QED
        BY <1>1, <3>1, <4>1, <4>2 DEF NextDir
    <3>2. CASE InSync("dirs", FALSE) /\ sync' = [sync EXCEPT !.left = @ \ {d}]
      BY <1>1, <3>2 DEF NextDir
    <3> QED
      BY <2>1, <3>1, <3>2
  <2>4. Typed'
    BY <2>3
  <2>5. Placed' /\ Checked' /\ OnlyOtherLinksAreLost'
    BY <2>2, <2>3 DEF Placed, Checked, OnlyOtherLinksAreLost, place
  <2> QED
    BY <2>4, <2>5
<1>2. CASE Check
  <2>1. PICK s \in sync.names :
          sync' = [sync EXCEPT !.names = @ \ {s}, !.at = <<@[1], s>>,
                    !.pc = CASE at[sync.at[1]][s] = "none" -> "linking"
                             [] at[sync.at[1]][s] = "other link" -> "removing"
                             [] OTHER -> "names"]
    BY <1>2 DEF Check
  <2>2. sync.at[1] \in Dir /\ s \in Skill
    BY <1>2 DEF Check, Placed
  <2> DEFINE place == <<sync.at[1], s>>
  <2>3. place \in Seq(Dir \cup Skill) /\ place[1] = sync.at[1] /\ place[2] = s
    BY <2>2
  <2> HIDE DEF place
  <2>4. /\ sync'.at = place /\ sync'.pc \in {"linking", "removing", "names"}
        /\ sync'.pc = "removing" => at[sync.at[1]][s] = "other link"
        /\ sync'.dirs = sync.dirs /\ sync'.entries = sync.entries
        /\ sync' \in SyncRecord
    BY <2>1, <2>3 DEF place
  <2>5. Typed'
    BY <1>2, <2>4 DEF Check
  <2>6. Placed' /\ Checked' /\ OnlyOtherLinksAreLost'
    BY <1>2, <2>2, <2>3, <2>4 DEF Check, Placed, Checked, Found, OnlyOtherLinksAreLost
  <2> QED
    BY <2>5, <2>6
<1>3. CASE EndDir
  BY <1>3 DEF EndDir, Placed, Checked, OnlyOtherLinksAreLost
<1>4. CASE Return
  BY <1>4 DEF Return, Placed, Checked, OnlyOtherLinksAreLost
<1>5. CASE Forget
  <2>1. sync' \in SyncRecord /\ sync'.pc = "idle"
    BY <1>5 DEF Forget, Idle
  <2> QED
    BY <1>5, <2>1 DEF Forget, Placed, Checked, OnlyOtherLinksAreLost
<1> QED
  BY <1>1, <1>2, <1>3, <1>4, <1>5

\* What Put leaves of the directories.
LEMMA PutEffect ==
  ASSUME at \in [Dir -> [Skill -> Kind]], sync.at[1] \in Dir, sync.at[2] \in Skill,
         NEW kind \in Kind, Put(kind)
  PROVE  /\ at' \in [Dir -> [Skill -> Kind]]
         /\ \A d \in Dir, s \in Skill :
              at'[d][s] = IF d = sync.at[1] /\ s = sync.at[2] THEN kind ELSE at[d][s]
BY DEF Put

LEMMA RemoveKeeps == IInv /\ Remove => IInv'
<1> SUFFICES ASSUME IInv, Remove PROVE IInv'
  OBVIOUS
<1> USE DEF IInv, InSync
<1>1. /\ sync.pc = "removing" /\ sync.at[1] \in Dir /\ sync.at[2] \in Skill
      /\ UNCHANGED <<skills, globalDirs, edits, meddled, before>>
  BY DEF Remove, Placed
<1>2. sync' \in SyncRecord /\ sync'.pc = "linking" /\ sync'.at = sync.at
  BY DEF Remove, Typed, SyncRecord
<1>3. UNCHANGED at \/ Put("none")
  BY DEF Remove
<1>4. /\ at' \in [Dir -> [Skill -> Kind]]
      /\ \A d \in Dir, s \in Skill :
           at'[d][s] = at[d][s] \/ (d = sync.at[1] /\ s = sync.at[2])
  <2>1. at \in [Dir -> [Skill -> Kind]] /\ "none" \in Kind
    BY DEF Typed, Kind
  <2>2. CASE UNCHANGED at
    BY <2>1, <2>2
  <2>3. CASE Put("none")
    BY <1>1, <2>1, <2>3, PutEffect
  <2> QED
    BY <1>3, <2>2, <2>3
<1>5. Typed'
  BY <1>1, <1>2, <1>4 DEF Typed
<1>6. Placed' /\ Checked'
  BY <1>1, <1>2 DEF Placed, Checked
<1>7. OnlyOtherLinksAreLost'
  BY <1>1, <1>4 DEF Checked, Found, OnlyOtherLinksAreLost
<1> QED
  BY <1>5, <1>6, <1>7

LEMMA SymlinkKeeps == IInv /\ Symlink => IInv'
<1> SUFFICES ASSUME IInv, Symlink PROVE IInv'
  OBVIOUS
<1> USE DEF IInv, InSync
<1>1. /\ sync.pc = "linking" /\ sync.at[1] \in Dir /\ sync.at[2] \in Skill
      /\ UNCHANGED <<skills, globalDirs, edits, meddled, before>>
  BY DEF Symlink, Placed
<1>2. sync' \in SyncRecord /\ sync'.pc = "names" /\ sync'.at = sync.at
  <2>1. CASE sync' = [sync EXCEPT !.pc = "names", !.updated = @ + 1]
    <3> DEFINE more == sync.updated + 1
    <3>1. more \in Nat
      BY DEF Typed, SyncRecord
    <3> HIDE DEF more
    <3>2. sync' = [sync EXCEPT !.pc = "names", !.updated = more]
      BY <2>1 DEF more, Typed, SyncRecord
    <3> QED
      BY <3>1, <3>2 DEF Typed, SyncRecord
  <2>2. CASE sync' = [sync EXCEPT !.pc = "names"]
    BY <2>2 DEF Typed, SyncRecord
  <2> QED
    BY <2>1, <2>2 DEF Symlink
<1>3. UNCHANGED at \/ (Put("link") /\ Found = "none")
  BY DEF Symlink
<1>4. /\ at' \in [Dir -> [Skill -> Kind]]
      /\ \A d \in Dir, s \in Skill : at'[d][s] = at[d][s] \/ at[d][s] = "none"
  <2>1. at \in [Dir -> [Skill -> Kind]] /\ "link" \in Kind
    BY DEF Typed, Kind
  <2>2. CASE UNCHANGED at
    BY <2>1, <2>2
  <2>3. CASE Put("link") /\ Found = "none"
    <3>1. at[sync.at[1]][sync.at[2]] = "none"
      BY <2>3 DEF Found
    <3> QED
      BY <1>1, <2>1, <2>3, <3>1, PutEffect
  <2> QED
    BY <1>3, <2>2, <2>3
<1>5. Typed'
  BY <1>1, <1>2, <1>4 DEF Typed
<1>6. Placed' /\ Checked'
  BY <1>1, <1>2 DEF Placed, Checked
<1>7. OnlyOtherLinksAreLost'
  BY <1>1, <1>4 DEF OnlyOtherLinksAreLost
<1> QED
  BY <1>5, <1>6, <1>7

LEMMA Inductive == IInv /\ [Next]_vars => IInv'
<1> SUFFICES ASSUME IInv, [Next]_vars PROVE IInv'
  OBVIOUS
<1>1. CASE UNCHANGED vars
  BY <1>1 DEF vars, IInv, Typed, Placed, Checked, Found, OnlyOtherLinksAreLost
<1> QED
  BY <1>1, EditKeeps, BeginKeeps, LoopKeeps, RemoveKeeps, SymlinkKeeps DEF Next, SyncStep

\* IInv, the strengthening of OnlyOtherLinksAreLost that says where a sync is and what
\* it has seen there, holds all the time.
THEOREM SkillSyncInvariant == Spec => []IInv
BY Initially, Inductive, PTL DEF Spec

\* Undisturbed, and whichever of its calls fail, a sync takes away nothing but links to
\* elsewhere (skills.go:105-121).
THEOREM OthersAreKept == Spec => []OnlyOtherLinksAreLost
<1>1. IInv => OnlyOtherLinksAreLost
  BY DEF IInv
<1> QED
  BY <1>1, SkillSyncInvariant, PTL

\* No sync removes a directory with something in it, whatever users do meanwhile
\* (skills.go:115-119).
THEOREM DirsAreSafe == Spec => RealDirsSurvive
<1>1. IInv /\ [Next]_vars =>
        [\A d \in Dir, s \in Skill :
           at[d][s] = "dir" /\ at'[d][s] # "dir" => edits' # edits]_vars
  <2> SUFFICES ASSUME IInv, Next, NEW d \in Dir, NEW s \in Skill,
                      at[d][s] = "dir", at'[d][s] # "dir"
               PROVE  edits' # edits
    OBVIOUS
  <2> USE DEF IInv, Typed, InSync
  <2>1. CASE EditDir \/ EditSkill
    BY <2>1 DEF EditDir, EditSkill, Edit
  <2>2. CASE SetGlobalDirs \/ EnsureSymlinks \/ NextDir \/ Check \/ EndDir \/ Return \/ Forget
    BY <2>2 DEF SetGlobalDirs, EnsureSymlinks, NextDir, Check, EndDir, Return, Forget
  <2>3. CASE Remove \/ Symlink
    <3>1. sync.at[1] \in Dir /\ sync.at[2] \in Skill
      BY <2>3 DEF Remove, Symlink, Placed
    <3> QED
      BY <2>3, <3>1 DEF Remove, Symlink, Put, Found
  <2> QED
    BY <2>1, <2>2, <2>3 DEF Next, SyncStep
<1> QED
  BY <1>1, SkillSyncInvariant, PTL DEF Spec, RealDirsSurvive

--------------------------------------------------------------------------------
(* What a sync has done, and what is left of it. *)

\* The places the sync has not dealt with yet.
Pending ==
  (sync.left \X sync.entries)
  \cup (IF sync.pc \in {"names", "removing", "linking"} THEN {sync.at[1]} \X sync.names ELSE {})
  \cup (IF sync.pc \in {"removing", "linking"} THEN {<<sync.at[1], sync.at[2]>>} ELSE {})

Cells == sync.dirs \X sync.entries

\* What is left is part of what there was, and no place is dealt with twice.
Within ==
  /\ sync.left \subseteq sync.dirs /\ sync.names \subseteq sync.entries
  /\ sync.pc \in {"names", "removing", "linking"} => sync.at[1] \in sync.dirs \ sync.left
  /\ sync.pc \in {"removing", "linking"} => sync.at[2] \in sync.entries \ sync.names
  /\ sync.pc = "done" => sync.left = {}
  /\ edits \in 0..MaxEdits /\ meddled \in BOOLEAN /\ failed \in BOOLEAN

\* A place is counted once at most, when it is dealt with.
Bounded == sync.updated + Cardinality(Pending) <= Cardinality(Cells)

Served == {"link", "file", "dir"}

\* Undisturbed and without failures, what has been dealt with is as it should be.
SoFar ==
  sync.pc # "idle" /\ ~meddled /\ ~failed =>
    \A c \in Cells \ Pending : at[c[1]][c[2]] \in Served

WorkInv == IInv /\ Within /\ Bounded /\ SoFar

LEMMA PendingFits ==
  ASSUME WorkInv
  PROVE  /\ IsFiniteSet(Cells) /\ Pending \subseteq Cells /\ Cells \in SUBSET (Dir \X Skill)
         /\ sync.updated \in Nat
<1>1. IsFiniteSet(Dir \X Skill)
  BY SkillAssumption, FS_Product DEF SkillAssumption
<1>2. Cells \in SUBSET (Dir \X Skill) /\ sync.updated \in Nat
  BY DEF WorkInv, IInv, Typed, SyncRecord, Cells
<1>3. Pending \subseteq Cells
  BY DEF WorkInv, Within, Pending, Cells
<1> QED
  BY <1>1, <1>2, <1>3, FS_Subset

LEMMA CountKeeps ==
  ASSUME NEW C, IsFiniteSet(C), NEW P \in SUBSET C, NEW Q \in SUBSET P,
         NEW u \in Nat, NEW v \in Nat, u + Cardinality(P) <= Cardinality(C),
         v = u \/ (v = u + 1 /\ \E c \in P : c \notin Q)
  PROVE  v + Cardinality(Q) <= Cardinality(C)
<1>1. IsFiniteSet(P) /\ IsFiniteSet(Q) /\ Cardinality(Q) <= Cardinality(P)
  BY FS_Subset
<1>2. Cardinality(C) \in Nat /\ Cardinality(P) \in Nat /\ Cardinality(Q) \in Nat
  BY <1>1, FS_CardinalityType
<1>3. CASE v = u
  BY <1>1, <1>2, <1>3
<1>4. CASE v = u + 1 /\ \E c \in P : c \notin Q
  <2>1. PICK c \in P : c \notin Q
    BY <1>4
  <2>2. Cardinality(P \ {c}) = Cardinality(P) - 1 /\ IsFiniteSet(P \ {c})
    BY <1>1, FS_RemoveElement
  <2>3. Cardinality(Q) <= Cardinality(P \ {c})
    BY <2>1, <2>2, FS_Subset
  <2> QED
    BY <1>2, <1>4, <2>2, <2>3
<1> QED
  BY <1>3, <1>4

\* A step of a sync: it deals with places it had left, counts one at most, and leaves it
\* as it should be if nothing fails.
Works ==
  /\ sync'.dirs = sync.dirs /\ sync'.entries = sync.entries
  /\ Pending' \subseteq Pending
  /\ \/ sync'.updated = sync.updated
     \/ sync'.updated = sync.updated + 1 /\ \E c \in Pending : c \notin Pending'
  /\ Within'
  /\ sync'.pc # "idle" /\ ~meddled' /\ ~failed' =>
       \A c \in Cells \ Pending' : at'[c[1]][c[2]] \in Served

LEMMA WorkKeeps == WorkInv /\ IInv' /\ Works => WorkInv'
<1> SUFFICES ASSUME WorkInv, IInv', Works PROVE WorkInv'
  OBVIOUS
<1>1. Cells' = Cells
  BY DEF Works, Cells
<1>2. Bounded'
  <2>1. sync'.updated \in Nat
    BY DEF IInv, Typed, SyncRecord
  <2>2. sync.updated + Cardinality(Pending) <= Cardinality(Cells)
    BY DEF WorkInv, Bounded
  <2> DEFINE C == Cells   P == Pending   Q == Pending'   u == sync.updated   v == sync'.updated
  <2>3. /\ IsFiniteSet(C) /\ P \in SUBSET C /\ Q \in SUBSET P /\ u \in Nat /\ v \in Nat
        /\ u + Cardinality(P) <= Cardinality(C)
        /\ v = u \/ (v = u + 1 /\ \E c \in P : c \notin Q)
    BY <2>1, <2>2, PendingFits DEF Works
  <2> HIDE DEF C, P, Q, u, v
  <2>4. v + Cardinality(Q) <= Cardinality(C)
    BY <2>3, CountKeeps
  <2> QED
    BY <1>1, <2>4 DEF Bounded, C, Q, v
<1>3. SoFar'
  BY <1>1 DEF Works, SoFar
<1> QED
  BY <1>2, <1>3 DEF WorkInv, Works

LEMMA WorkInitially == Init => WorkInv
<1> SUFFICES ASSUME Init PROVE WorkInv
  OBVIOUS
<1>1. IInv
  BY Initially
<1>2. 0 \in 0..MaxEdits
  BY SkillAssumption DEF SkillAssumption
<1>3. /\ sync.pc = "idle" /\ sync.dirs = {} /\ sync.entries = {} /\ sync.left = {}
      /\ sync.names = {} /\ sync.updated = 0
  BY DEF Init, Idle
<1>4. Within /\ SoFar
  BY <1>2, <1>3 DEF Init, Within, SoFar
<1>5. Pending = {} /\ Cells = {}
  BY <1>3 DEF Pending, Cells
<1>6. Bounded
  BY <1>3, <1>5, FS_EmptySet DEF Bounded
<1> QED
  BY <1>1, <1>4, <1>6 DEF WorkInv

LEMMA WorkEdited == WorkInv /\ (EditDir \/ EditSkill \/ SetGlobalDirs) => WorkInv'
<1> SUFFICES ASSUME WorkInv, EditDir \/ EditSkill \/ SetGlobalDirs PROVE WorkInv'
  OBVIOUS
<1>1. IInv'
  BY EditKeeps DEF WorkInv
<1>2. sync' = sync /\ failed' = failed /\ (meddled' \/ (at' = at /\ meddled' = meddled))
  BY DEF EditDir, EditSkill, Edit, SetGlobalDirs
<1>3. edits' \in 0..MaxEdits /\ meddled' \in BOOLEAN
  <2>1. edits \in 0..MaxEdits /\ meddled \in BOOLEAN
    BY DEF WorkInv, Within
  <2>2. CASE EditDir \/ EditSkill
    <3>1. edits < MaxEdits /\ edits' = edits + 1 /\ meddled' = TRUE
      BY <2>2 DEF EditDir, EditSkill, Edit
    <3> QED
      BY <2>1, <3>1, SkillAssumption DEF SkillAssumption
  <2>3. CASE SetGlobalDirs
    BY <2>1, <2>3 DEF SetGlobalDirs
  <2> QED
    BY <2>2, <2>3
<1>4. Pending' = Pending /\ Cells' = Cells
  BY <1>2 DEF Pending, Cells
<1>5. Within' /\ Bounded' /\ SoFar'
  BY <1>2, <1>3, <1>4 DEF WorkInv, Within, Bounded, SoFar
<1> QED
  BY <1>1, <1>5 DEF WorkInv

LEMMA WorkBegun == WorkInv /\ (EnsureSymlinks \/ Forget) => WorkInv'
<1> SUFFICES ASSUME WorkInv, EnsureSymlinks \/ Forget PROVE WorkInv'
  OBVIOUS
<1>1. IInv'
  BY BeginKeeps, LoopKeeps DEF WorkInv
<1>2. /\ Pending' = Cells' /\ sync'.updated = 0
      /\ sync'.pc \in {"dirs", "idle"} /\ sync'.left = sync'.dirs /\ sync'.names = {}
  <2>1. /\ sync'.updated = 0
        /\ sync'.pc \in {"dirs", "idle"} /\ sync'.left = sync'.dirs /\ sync'.names = {}
    <3>1. CASE EnsureSymlinks
      <4>1. sync' = [pc |-> "dirs", dirs |-> globalDirs, entries |-> skills,
                     left |-> globalDirs, names |-> {}, at |-> <<>>, updated |-> 0]
        BY <3>1 DEF EnsureSymlinks, Idle
      <4> QED
        BY <4>1
    <3>2. CASE Forget
      BY <3>2 DEF Forget, Idle
    <3> QED
      BY <3>1, <3>2
  <2> QED
    BY <2>1 DEF Pending, Cells
<1>3. edits' = edits /\ meddled' \in BOOLEAN /\ failed' \in BOOLEAN
  BY DEF EnsureSymlinks, Forget, InSync, WorkInv, Within
<1>4. Within'
  BY <1>2, <1>3 DEF WorkInv, Within
<1>5. SoFar'
  BY <1>2 DEF SoFar
<1>6. Bounded'
  <2>1. IsFiniteSet(Dir \X Skill) /\ Cells' \in SUBSET (Dir \X Skill)
    BY <1>1, SkillAssumption, FS_Product DEF SkillAssumption, IInv, Typed, SyncRecord, Cells
  <2> DEFINE n == Cardinality(Cells')
  <2>2. n \in Nat
    BY <2>1, FS_Subset, FS_CardinalityType
  <2>3. Bounded' <=> 0 + n <= n
    BY <1>2 DEF Bounded
  <2> HIDE DEF n
  <2> QED
    BY <2>2, <2>3
<1> QED
  BY <1>1, <1>4, <1>5, <1>6 DEF WorkInv

LEMMA DirWorks == WorkInv /\ NextDir => Works
<1> SUFFICES ASSUME WorkInv, NextDir PROVE Works
  OBVIOUS
<1> USE DEF WorkInv, IInv, Typed, SyncRecord, Within, InSync
<1>1. PICK d \in sync.left :
        \/ /\ InSync("dirs", TRUE)
           /\ sync' = [sync EXCEPT !.pc = "names", !.left = @ \ {d},
                                   !.names = sync.entries, !.at = <<d>>]
        \/ /\ InSync("dirs", FALSE)
           /\ sync' = [sync EXCEPT !.left = @ \ {d}]
  BY DEF NextDir
<1>2. sync.pc = "dirs" /\ at' = at /\ meddled' = meddled /\ edits' = edits
  BY <1>1 DEF NextDir
<1>3. CASE InSync("dirs", TRUE) /\ sync'.pc = "names"
  <2> DEFINE place == <<d>>
  <2>1. place[1] = d
    OBVIOUS
  <2> HIDE DEF place
  <2>2. /\ sync'.dirs = sync.dirs /\ sync'.entries = sync.entries
        /\ sync'.left = sync.left \ {d} /\ sync'.names = sync.entries /\ sync'.at = place
        /\ sync'.updated = sync.updated /\ failed' = failed
    BY <1>1, <1>2, <1>3 DEF place
  <2>3. Within'
    BY <1>2, <1>3, <2>1, <2>2
  <2>4. Pending' = Pending
    BY <1>1, <1>2, <1>3, <2>1, <2>2 DEF Pending
  <2> QED
    BY <1>2, <2>2, <2>3, <2>4 DEF Works, SoFar
<1>4. CASE InSync("dirs", FALSE) /\ sync' = [sync EXCEPT !.left = @ \ {d}]
  <2>1. /\ sync'.dirs = sync.dirs /\ sync'.entries = sync.entries /\ sync'.pc = "dirs"
        /\ sync'.left = sync.left \ {d} /\ sync'.names = sync.names
        /\ sync'.updated = sync.updated /\ failed'
    BY <1>2, <1>4
  <2> QED
    BY <1>2, <2>1 DEF Works, Pending
<1> QED
  BY <1>1, <1>3, <1>4

LEMMA CheckWorks == WorkInv /\ Check => Works
<1> SUFFICES ASSUME WorkInv, Check PROVE Works
  OBVIOUS
<1> USE DEF WorkInv, IInv, Typed, SyncRecord, Within, InSync
<1>1. PICK s \in sync.names :
        sync' = [sync EXCEPT !.names = @ \ {s}, !.at = <<@[1], s>>,
                  !.pc = CASE at[sync.at[1]][s] = "none" -> "linking"
                           [] at[sync.at[1]][s] = "other link" -> "removing"
                           [] OTHER -> "names"]
  BY DEF Check
<1>2. /\ sync.pc = "names" /\ at' = at /\ meddled' = meddled /\ edits' = edits
      /\ (failed' <=> failed) /\ failed' \in BOOLEAN /\ sync.at[1] \in sync.dirs \ sync.left
  BY DEF Check
<1> DEFINE place == <<sync.at[1], s>>
           c == <<sync.at[1], s>>
<1>3. place[1] = sync.at[1] /\ place[2] = s /\ c[1] = sync.at[1] /\ c[2] = s
  OBVIOUS
<1>4. c = <<place[1], place[2]>>
  OBVIOUS
<1> HIDE DEF place
<1>5. /\ sync'.dirs = sync.dirs /\ sync'.entries = sync.entries /\ sync'.left = sync.left
      /\ sync'.names = sync.names \ {s} /\ sync'.at = place /\ sync'.updated = sync.updated
      /\ sync'.pc \in {"linking", "removing", "names"}
      /\ sync'.pc = "names" => at[sync.at[1]][s] \notin {"none", "other link"}
  BY <1>1, <1>2 DEF place
<1>6. Within'
  BY <1>2, <1>3, <1>5
<1>7. /\ Pending' \subseteq Pending
      /\ Pending \ Pending' \subseteq {c}
      /\ sync'.pc # "names" => Pending' = Pending
  <2>1. Pending = (sync.left \X sync.entries) \cup ({sync.at[1]} \X sync.names)
    BY <1>2 DEF Pending
  <2>2. Pending' = (sync.left \X sync.entries) \cup ({sync.at[1]} \X (sync.names \ {s}))
                   \cup (IF sync'.pc = "names" THEN {} ELSE {c})
    BY <1>3, <1>4, <1>5 DEF Pending
  <2> QED
    BY <2>1, <2>2
<1>8. sync'.pc = "names" => at[c[1]][c[2]] \in Served
  <2>1. sync.at[1] \in Dir /\ s \in Skill
    BY <1>2
  <2>2. at[sync.at[1]][s] \in Kind
    BY <2>1
  <2> QED
    BY <1>3, <1>5, <2>2 DEF Served, Kind
<1>9. sync'.pc # "idle" /\ ~meddled' /\ ~failed' =>
        \A x \in Cells \ Pending' : at'[x[1]][x[2]] \in Served
  <2> SUFFICES ASSUME ~meddled, ~failed, NEW x \in Cells \ Pending'
               PROVE  at[x[1]][x[2]] \in Served
    BY <1>2
  <2>1. CASE x \in Pending
    BY <2>1, <1>5, <1>7, <1>8
  <2>2. CASE x \notin Pending
    BY <2>2, <1>2 DEF SoFar
  <2> QED
    BY <2>1, <2>2
<1> QED
  BY <1>5, <1>6, <1>7, <1>9 DEF Works

LEMMA RemoveWorks == WorkInv /\ Remove => Works
<1> SUFFICES ASSUME WorkInv, Remove PROVE Works
  OBVIOUS
<1> USE DEF WorkInv, IInv, Typed, SyncRecord, Within, InSync
<1>1. /\ sync.pc = "removing" /\ sync' = [sync EXCEPT !.pc = "linking"]
      /\ sync.at[1] \in sync.dirs \ sync.left /\ sync.at[2] \in sync.entries \ sync.names
      /\ meddled' = meddled /\ edits' = edits /\ failed' \in BOOLEAN /\ (failed => failed')
      /\ UNCHANGED at \/ Put("none")
  BY DEF Remove
<1>2. /\ sync'.dirs = sync.dirs /\ sync'.entries = sync.entries /\ sync'.left = sync.left
      /\ sync'.names = sync.names /\ sync'.at = sync.at /\ sync'.updated = sync.updated
      /\ sync'.pc = "linking"
  BY <1>1
<1>3. Within'
  BY <1>1, <1>2
<1>4. Pending' = Pending /\ <<sync.at[1], sync.at[2]>> \in Pending
  BY <1>1, <1>2 DEF Pending
<1>5. \A d \in Dir, s \in Skill : at'[d][s] = at[d][s] \/ (d = sync.at[1] /\ s = sync.at[2])
  <2>1. at \in [Dir -> [Skill -> Kind]] /\ "none" \in Kind /\ sync.at[1] \in Dir /\ sync.at[2] \in Skill
    BY <1>1 DEF Kind, Placed
  <2> HIDE DEF WorkInv, IInv, Typed, SyncRecord, Within, InSync
  <2>2. CASE UNCHANGED at
    BY <2>2
  <2>3. CASE Put("none")
    BY <2>1, <2>3, PutEffect
  <2> QED
    BY <1>1, <2>2, <2>3
<1>6. \A c \in Cells \ Pending : at'[c[1]][c[2]] = at[c[1]][c[2]]
  <2> SUFFICES ASSUME NEW c \in Cells \ Pending PROVE at'[c[1]][c[2]] = at[c[1]][c[2]]
    OBVIOUS
  <2>1. c[1] \in Dir /\ c[2] \in Skill /\ c = <<c[1], c[2]>>
    BY DEF Cells
  <2>2. ~(c[1] = sync.at[1] /\ c[2] = sync.at[2])
    BY <2>1, <1>4
  <2> QED
    BY <1>5, <2>1, <2>2
<1> QED
  BY <1>1, <1>2, <1>3, <1>4, <1>6 DEF Works, SoFar

LEMMA SymlinkWorks == WorkInv /\ Symlink => Works
<1> SUFFICES ASSUME WorkInv, Symlink PROVE Works
  OBVIOUS
<1> USE DEF WorkInv, IInv, Typed, SyncRecord, Within, InSync
<1> DEFINE c == <<sync.at[1], sync.at[2]>>
<1>1. /\ sync.pc = "linking" /\ meddled' = meddled /\ edits' = edits
      /\ failed' \in BOOLEAN /\ (failed => failed')
      /\ sync.at[1] \in sync.dirs \ sync.left /\ sync.at[2] \in sync.entries \ sync.names
  BY DEF Symlink
<1>2. /\ sync'.dirs = sync.dirs /\ sync'.entries = sync.entries /\ sync'.left = sync.left
      /\ sync'.names = sync.names /\ sync'.at = sync.at /\ sync'.pc = "names"
      /\ sync'.updated = sync.updated \/ sync'.updated = sync.updated + 1
  BY DEF Symlink
<1>3. Within'
  BY <1>1, <1>2
<1>4. Pending' \subseteq Pending /\ c \in Pending /\ c \notin Pending'
      /\ Pending \ Pending' \subseteq {c}
  <2>1. Pending = (sync.left \X sync.entries) \cup ({sync.at[1]} \X sync.names) \cup {c}
    BY <1>1 DEF Pending
  <2>2. Pending' = (sync.left \X sync.entries) \cup ({sync.at[1]} \X sync.names)
    BY <1>2 DEF Pending
  <2>3. c \notin (sync.left \X sync.entries) /\ c \notin ({sync.at[1]} \X sync.names)
    BY <1>1
  <2> QED
    BY <2>1, <2>2, <2>3
<1>5. ~meddled' /\ ~failed' => \A x \in Cells \ Pending' : at'[x[1]][x[2]] \in Served
  <2> SUFFICES ASSUME ~meddled, ~failed, ~failed', NEW x \in Cells \ Pending'
               PROVE  at'[x[1]][x[2]] \in Served
    BY <1>1
  <2>1. Found = "none" /\ Put("link")
    BY DEF Symlink
  <2>2. \A d \in Dir, s \in Skill :
          at'[d][s] = IF d = sync.at[1] /\ s = sync.at[2] THEN "link" ELSE at[d][s]
    BY <1>1, <2>1, PutEffect DEF Kind
  <2>3. x[1] \in Dir /\ x[2] \in Skill /\ x = <<x[1], x[2]>>
    BY DEF Cells
  <2>4. CASE x = c
    BY <2>2, <2>3, <2>4 DEF Served
  <2>5. CASE x # c
    <3>1. x \notin Pending
      BY <1>4, <2>5
    <3>2. at[x[1]][x[2]] \in Served
      BY <1>1, <3>1 DEF SoFar
    <3> QED
      BY <2>2, <2>3, <3>2 DEF Served
  <2> QED
    BY <2>4, <2>5
<1> QED
  BY <1>2, <1>3, <1>4, <1>5 DEF Works

LEMMA EndWorks == WorkInv /\ (EndDir \/ Return) => Works
<1> SUFFICES ASSUME WorkInv, EndDir \/ Return PROVE Works
  OBVIOUS
<1> USE DEF WorkInv, IInv, Typed, SyncRecord, Within, InSync
<1>1. /\ sync'.dirs = sync.dirs /\ sync'.entries = sync.entries /\ sync'.left = sync.left
      /\ sync'.names = sync.names /\ sync'.at = sync.at /\ sync'.updated = sync.updated
      /\ sync'.pc \in {"dirs", "done"} /\ sync.pc # "idle"
      /\ sync'.pc = "done" => sync'.left = {}
      /\ at' = at /\ meddled' = meddled /\ edits' = edits
      /\ (failed' <=> failed) /\ failed' \in BOOLEAN
  BY DEF EndDir, Return
<1>2. Within'
  BY <1>1
<1>3. Pending' = Pending
  BY <1>1 DEF EndDir, Return, Pending
<1> QED
  BY <1>1, <1>2, <1>3 DEF Works, SoFar

LEMMA WorkInductive == WorkInv /\ [Next]_vars => WorkInv'
<1> SUFFICES ASSUME WorkInv, [Next]_vars PROVE WorkInv'
  OBVIOUS
<1>1. IInv'
  BY Inductive DEF WorkInv
<1>2. CASE UNCHANGED vars
  <2>1. Pending' = Pending /\ Cells' = Cells
    BY <1>2 DEF vars, Pending, Cells
  <2> QED
    BY <1>1, <1>2, <2>1 DEF vars, WorkInv, Within, Bounded, SoFar
<1> QED
  BY <1>1, <1>2, WorkEdited, WorkBegun, WorkKeeps, DirWorks, CheckWorks, RemoveWorks,
     SymlinkWorks, EndWorks
  DEF Next, SyncStep

\* WorkInv, which follows the places a sync has dealt with and has yet to deal with,
\* holds all the time.
THEOREM WorkInvariant == Spec => []WorkInv
BY WorkInitially, WorkInductive, PTL DEF Spec

\* The variables keep their types, and a sync never counts more links than it looked at
\* places (skills.go:78-132).
THEOREM SkillSyncTypeCorrect == Spec => []TypeOK
<1>1. WorkInv => TypeOK
  <2> SUFFICES ASSUME WorkInv PROVE TypeOK
    OBVIOUS
  <2>1. sync.updated \in 0..Cardinality(sync.dirs \X sync.entries)
    <3>1. IsFiniteSet(Cells) /\ IsFiniteSet(Pending) /\ sync.updated \in Nat
      BY PendingFits, FS_Subset
    <3>2. Cardinality(Cells) \in Nat /\ Cardinality(Pending) \in Nat
      BY <3>1, FS_CardinalityType
    <3>3. sync.updated + Cardinality(Pending) <= Cardinality(Cells)
      BY DEF WorkInv, Bounded
    <3>4. sync.updated \in 0..Cardinality(Cells)
      BY <3>1, <3>2, <3>3
    <3> QED
      BY <3>4 DEF Cells
  <2> QED
    BY <2>1 DEF WorkInv, IInv, Typed, SyncRecord, Within, TypeOK
<1> QED
  BY <1>1, WorkInvariant, PTL

\* A sync that nobody disturbed and whose calls succeeded has dealt with every skill in
\* every directory (skills.go:78-132).
THEOREM SyncServesEverySkill == Spec => []SyncedSkillsAreThere
<1>1. WorkInv => SyncedSkillsAreThere
  <2> SUFFICES ASSUME WorkInv, sync.pc = "done", ~meddled, ~failed,
                      NEW d \in sync.dirs, NEW s \in sync.entries
               PROVE  at[d][s] \in {"link", "file", "dir"}
    BY DEF SyncedSkillsAreThere
  <2> DEFINE c == <<d, s>>
  <2>1. c \in Cells \ Pending /\ c[1] = d /\ c[2] = s
    BY DEF WorkInv, Within, Pending, Cells
  <2>2. at[c[1]][c[2]] \in Served
    BY <2>1 DEF WorkInv, SoFar
  <2> QED
    BY <2>1, <2>2 DEF Served
<1> QED
  BY <1>1, WorkInvariant, PTL
==================================================================================
