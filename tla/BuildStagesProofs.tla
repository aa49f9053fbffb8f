-------------------------- MODULE BuildStagesProofs --------------------------
(***************************************************************************)
(* Proofs for the build system: for BuildStages with any packages,         *)
(* dependencies and lists, any length of -c and any tool failing or build  *)
(* killed at any step; and, from "The list of packages", for DepClosure    *)
(* with any packages, dependencies (round in a cycle too) and any asked    *)
(* for.                                                                    *)
(***************************************************************************)
EXTENDS BuildStages, DepClosure, FiniteSetTheorems, SequenceTheorems, TLAPS

USE DEF Sync, Patch, Config, Build, Install

\* The parts of TypeOK about mk.sh and about the disk.
ArgsOK ==
  /\ cmds \in Seq(Commands) /\ list \in Seq(Packages)
  /\ ci \in Nat \ {0} /\ pos \in Nat \ {0}
  /\ Running => list \in Lists /\ ci <= Len(cmds) /\ pos <= Len(list)
  /\ pc \in {"idle", "package", "make", "touch", "completed"} /\ st \in Stages

DiskOK ==
  /\ marks \in [Packages -> SUBSET Stages]
  /\ tree \in [Packages -> {"absent", "dir", "source"}]
  /\ patched \in [Packages -> {"no", "some", "all"}]
  /\ fresh \in [Packages -> SUBSET Stages]

LEMMA TypeParts == TypeOK <=> ArgsOK /\ DiskOK
  BY DEF TypeOK, ArgsOK, DiskOK

\* The package and the command at hand are among those given.
LEMMA AtHand ==
  ASSUME ArgsOK, Running
  PROVE  Pkg \in Packages /\ Cmd \in Commands
  BY DEF ArgsOK, Pkg, Cmd, Running

LEMMA CommandFacts ==
  ASSUME NEW c \in Commands
  PROVE  c.kind \in Kinds /\ c.stage \in Stages /\ Removed(c) \subseteq Stages
<1>1. c.kind \in Kinds /\ c.stage \in Stages
  BY DEF Commands
<1>2. CASE c.kind = "redo"
  BY <1>1, <1>2 DEF Removed, Stages
<1>3. CASE c.kind = "only"
  BY <1>1, <1>3 DEF Removed, Stages
<1>4. CASE c.kind \notin {"redo", "only"}
  BY <1>1, <1>4 DEF Removed
<1> QED BY <1>1, <1>2, <1>3, <1>4

\* After a script mk.sh is at the next package (if it succeeded), at the
\* first one of the next command, or at its end.
LEMMA ScriptEndsFacts ==
  ASSUME ArgsOK, Running, NEW ok \in BOOLEAN, ScriptEnds(ok)
  PROVE  /\ ci' \in Nat \ {0} /\ pos' \in Nat \ {0}
         /\ pc' \in {"package", "completed"}
         /\ pc' = "package" => ci' <= Len(cmds) /\ pos' <= Len(list)
         /\ pos' = 1 \/ pos' = pos \/ (ok /\ pos' = pos + 1 /\ ci' = ci)
         /\ pos' = pos => pc' = "completed" \/ pos = 1
<1>1. /\ ci \in Nat /\ pos \in Nat /\ ci <= Len(cmds) /\ pos <= Len(list)
      /\ ci # 0 /\ pos # 0
      /\ Len(cmds) \in Nat /\ Len(list) \in Nat
  BY DEF ArgsOK
<1>2. CASE ok /\ pos < Len(list)
  BY <1>1, <1>2 DEF ScriptEnds
<1>3. CASE ~(ok /\ pos < Len(list))
  <2>1. NextCommand
    BY <1>3 DEF ScriptEnds
  <2> QED BY <1>1, <2>1 DEF NextCommand
<1> QED BY <1>2, <1>3

LEMMA StageEndsFacts ==
  ASSUME ArgsOK, Running, StageEnds
  PROVE  /\ ci' \in Nat \ {0} /\ pos' \in Nat \ {0} /\ st' \in Stages
         /\ pc' \in {"package", "make", "completed"}
         /\ pc' \in {"package", "make"} => ci' <= Len(cmds) /\ pos' <= Len(list)
         /\ pc' = "make" => st # Install /\ st' = st + 1 /\ pos' = pos /\ ci' = ci
         /\ pc' = "package" => st = Install /\ st' = st
<1>1. ci \in Nat \ {0} /\ pos \in Nat \ {0} /\ st \in Stages /\ ci <= Len(cmds) /\ pos <= Len(list)
  BY DEF ArgsOK
<1>2. CASE st = Install
  <2>1. ScriptEnds(TRUE) /\ UNCHANGED st
    BY <1>2 DEF StageEnds
  <2> QED BY <1>1, <1>2, <2>1, ScriptEndsFacts
<1>3. CASE st # Install
  <2>1. st' = st + 1 /\ pc' = "make" /\ UNCHANGED <<ci, pos>>
    BY <1>3 DEF StageEnds
  <2>2. st + 1 \in Stages
    BY <1>1, <1>3 DEF Stages
  <2> QED BY <1>1, <1>3, <2>1, <2>2
<1> QED BY <1>2, <1>3
-----------------------------------------------------------------------------
LEMMA ArgsStep ==
  ASSUME BuildStagesAssumption, ArgsOK, [Next]_vars
  PROVE  ArgsOK'
<1> USE DEF Running
<1>1. CASE Invoke
  <2>1. PICK n \in 1..MaxCmds : cmds' \in [1..n -> Commands]
    BY <1>1 DEF Invoke
  <2>2. cmds' \in Seq(Commands) /\ Len(cmds') = n
    BY <2>1, BuildStagesAssumption DEF BuildStagesAssumption
  <2>3. list' \in Lists /\ list' \in Seq(Packages) /\ list' # <<>>
    BY <1>1, BuildStagesAssumption DEF Invoke, BuildStagesAssumption
  <2>4. 1 <= Len(list')
    BY <2>3
  <2>5. ci' = 1 /\ pos' = 1 /\ pc' = "package" /\ st' = st
    BY <1>1 DEF Invoke
  <2>6. n >= 1
    BY <2>1
  <2> QED BY <2>2, <2>3, <2>4, <2>5, <2>6 DEF ArgsOK
<1>2. CASE CleanPackage
  <2>1. ScriptEnds(TRUE) /\ pc = "package" /\ UNCHANGED <<cmds, list, st>>
    BY <1>2 DEF CleanPackage, args
  <2> QED BY <2>1, ScriptEndsFacts DEF ArgsOK
<1>3. CASE RemakePackage \/ MakePackage
  <2>1. /\ pc = "package" /\ pc' = "make" /\ st' = Sync
        /\ UNCHANGED <<cmds, list, ci, pos>>
    BY <1>3 DEF RemakePackage, MakePackage, args
  <2> QED BY <2>1 DEF ArgsOK, Stages
<1>4. CASE SkipStage \/ TouchMark
  <2>1. StageEnds /\ pc \in {"make", "touch"} /\ UNCHANGED <<cmds, list>>
    BY <1>4 DEF SkipStage, TouchMark, args
  <2> QED BY <2>1, StageEndsFacts DEF ArgsOK
<1>5. CASE RunStage
  <2>1. /\ pc = "make" /\ pc' = "touch"
        /\ UNCHANGED <<cmds, list, ci, pos, st>>
    BY <1>5 DEF RunStage, args
  <2> QED BY <2>1 DEF ArgsOK
<1>6. CASE FailStage
  <2>1. ScriptEnds(FALSE) /\ pc = "make" /\ UNCHANGED <<cmds, list, st>>
    BY <1>6 DEF FailStage, args
  <2> QED BY <2>1, ScriptEndsFacts DEF ArgsOK
<1>7. CASE Kill \/ KillTorn
  <2>1. pc' = "idle" /\ UNCHANGED <<cmds, list, ci, pos, st>>
    BY <1>7 DEF Kill, KillTorn, args
  <2> QED BY <2>1 DEF ArgsOK
<1>8. CASE UNCHANGED vars
  BY <1>8 DEF vars, ArgsOK
<1> QED BY <1>1, <1>2, <1>3, <1>4, <1>5, <1>6, <1>7, <1>8 DEF Next
-----------------------------------------------------------------------------
LEMMA RemoveTreeType ==
  ASSUME DiskOK, NEW p \in Packages, RemoveTree(p)
  PROVE  DiskOK'
  BY DEF DiskOK, RemoveTree, SetTree

LEMMA StageDoneType ==
  ASSUME DiskOK, NEW p \in Packages, NEW s \in Stages, StageDone(p, s)
  PROVE  /\ tree' \in [Packages -> {"absent", "dir", "source"}]
         /\ patched' \in [Packages -> {"no", "some", "all"}]
         /\ fresh' \in [Packages -> SUBSET Stages]
  BY DEF DiskOK, StageDone

LEMMA StageBrokenType ==
  ASSUME DiskOK, NEW p \in Packages, NEW s \in Stages, StageBroken(p, s)
  PROVE  /\ tree' \in [Packages -> {"absent", "dir", "source"}]
         /\ patched' \in [Packages -> {"no", "some", "all"}]
         /\ fresh' \in [Packages -> SUBSET Stages]
<1>1. PICK how \in {"no", "some"} :
        patched' = [patched EXCEPT ![p] = IF s = Patch THEN how ELSE @]
  BY DEF StageBroken
<1> QED BY <1>1 DEF DiskOK, StageBroken

LEMMA DiskStep ==
  ASSUME ArgsOK, DiskOK, [Next]_vars
  PROVE  DiskOK'
<1> USE DEF Running
<1>1. CASE Invoke \/ SkipStage \/ UNCHANGED vars
  BY <1>1 DEF Invoke, SkipStage, vars, disk, DiskOK
<1>2. CASE CleanPackage \/ RemakePackage
  <2>1. RemoveTree(Pkg) /\ Pkg \in Packages
    BY <1>2, AtHand DEF CleanPackage, RemakePackage
  <2> QED BY <2>1, RemoveTreeType
<1>3. CASE MakePackage
  BY <1>3, AtHand DEF MakePackage, DiskOK
<1>4. CASE RunStage
  <2>1. StageDone(Pkg, st) /\ UNCHANGED marks /\ Pkg \in Packages /\ st \in Stages
    BY <1>4, AtHand DEF RunStage, ArgsOK
  <2> QED BY <2>1, StageDoneType DEF DiskOK
<1>5. CASE FailStage
  <2>1. StageFails(Pkg, st) /\ UNCHANGED marks /\ Pkg \in Packages /\ st \in Stages
    BY <1>5, AtHand DEF FailStage, ArgsOK
  <2>2. CASE StageBroken(Pkg, st)
    BY <2>1, <2>2, StageBrokenType DEF DiskOK
  <2>3. CASE UNCHANGED <<tree, patched, fresh>>
    BY <2>1, <2>3 DEF DiskOK
  <2> QED BY <2>1, <2>2, <2>3 DEF StageFails
<1>6. CASE TouchMark
  <2>1. Pkg \in Packages /\ st \in Stages
    BY <1>6, AtHand DEF TouchMark, ArgsOK
  <2> QED BY <1>6, <2>1 DEF TouchMark, DiskOK
<1>7. CASE Kill
  <2>1. CASE UNCHANGED disk
    BY <2>1 DEF disk, DiskOK
  <2>2. CASE pc = "make" /\ StageBroken(Pkg, st) /\ UNCHANGED marks
    <3>1. Pkg \in Packages /\ st \in Stages
      BY <2>2, AtHand DEF ArgsOK
    <3> QED BY <2>2, <3>1, StageBrokenType DEF DiskOK
  <2> QED BY <1>7, <2>1, <2>2 DEF Kill
<1>8. CASE KillTorn
  <2>1. Pkg \in Packages
    BY <1>8, AtHand DEF KillTorn
  <2>2. CASE /\ \E s \in Removed(Cmd) :
                  marks' = [marks EXCEPT ![Pkg] = @ \ {t \in Removed(Cmd) : t <= s}]
             /\ UNCHANGED <<tree, patched, fresh>>
    BY <2>1, <2>2 DEF DiskOK
  <2>3. CASE /\ \E kept \in SUBSET marks[Pkg] : marks' = [marks EXCEPT ![Pkg] = kept]
             /\ SetTree(Pkg, "dir", "no")
             /\ fresh' = [fresh EXCEPT ![Pkg] = {}]
    <3>1. PICK kept \in SUBSET marks[Pkg] : marks' = [marks EXCEPT ![Pkg] = kept]
      BY <2>3
    <3>2. kept \in SUBSET Stages
      BY <2>1, <3>1 DEF DiskOK
    <3> QED BY <2>1, <2>3, <3>1, <3>2 DEF DiskOK, SetTree
  <2> QED BY <1>8, <2>2, <2>3 DEF KillTorn
<1> QED BY <1>1, <1>2, <1>3, <1>4, <1>5, <1>6, <1>7, <1>8 DEF Next

LEMMA TypeInit == ASSUME Init PROVE TypeOK
<1>1. <<>> \in Seq(Commands) /\ <<>> \in Seq(Packages)
  OBVIOUS
<1> QED BY <1>1 DEF Init, TypeOK, Running, Stages

\* Type correctness: the positions in the list and in the commands never run
\* past their ends, whatever fails (mk.sh:72-81).
THEOREM BuildTypeCorrect == Spec => []TypeOK
<1>1. TypeOK /\ [Next]_vars => TypeOK'
  BY BuildStagesAssumption, TypeParts, ArgsStep, DiskStep DEF TypeOK, ArgsOK, DiskOK
<1> QED BY <1>1, TypeInit, PTL DEF Spec
-----------------------------------------------------------------------------
(***************************************************************************)
(* What MarksAreCurrent rests on.  The state files of a package are those  *)
(* of its first stages; what is current of it tells the state of its tree; *)
(* and a script that has come to a stage has the state files of the ones   *)
(* before.                                                                 *)
(***************************************************************************)
MarksArePrefix ==
  \A p \in Packages : \A s \in marks[p] : \A t \in Stages : t < s => t \in marks[p]

FreshFitsTree ==
  \A p \in Packages :
    /\ Sync \in fresh[p] => tree[p] = "source"
    /\ Patch \in fresh[p] /\ p \in Patches => patched[p] = "all"

EarlierAreMarked ==
  /\ pc \in {"make", "touch"} => \A t \in Stages : t < st => t \in marks[Pkg]
  /\ pc = "touch" => st \in fresh[Pkg]

BInv == TypeOK /\ MarksAreCurrent /\ MarksArePrefix /\ FreshFitsTree /\ EarlierAreMarked

LEMMA BInit == ASSUME Init PROVE BInv
  BY TypeInit DEF Init, BInv, MarksAreCurrent, MarksArePrefix, FreshFitsTree,
     EarlierAreMarked

\* The disk's part: it needs no word about where mk.sh goes next.
DiskInv == MarksAreCurrent /\ MarksArePrefix /\ FreshFitsTree

LEMMA RemoveTreeInv ==
  ASSUME DiskOK, DiskInv, NEW p \in Packages, RemoveTree(p)
  PROVE  DiskInv'
<1>1. \A q \in Packages :
        /\ q = p => marks'[q] = {} /\ fresh'[q] = {}
        /\ q # p => /\ marks'[q] = marks[q] /\ fresh'[q] = fresh[q]
                    /\ tree'[q] = tree[q] /\ patched'[q] = patched[q]
  BY DEF DiskOK, RemoveTree, SetTree
<1>2. MarksAreCurrent'
  BY <1>1 DEF DiskInv, MarksAreCurrent
<1>3. MarksArePrefix'
  BY <1>1 DEF DiskInv, MarksArePrefix
<1>4. FreshFitsTree'
  BY <1>1 DEF DiskInv, FreshFitsTree
<1> QED BY <1>2, <1>3, <1>4 DEF DiskInv

\* A stage whose state file is missing has none of the later ones.
LEMMA LaterUnmarked ==
  ASSUME DiskOK, DiskInv, NEW p \in Packages, NEW s \in Stages, s \notin marks[p]
  PROVE  marks[p] \cap (s..Install) = {}
<1>1. \A t \in marks[p] : t \in Stages /\ ~(s < t)
  BY DEF DiskOK, DiskInv, MarksArePrefix
<1> QED BY <1>1 DEF Stages

LEMMA StageDoneInv ==
  ASSUME DiskOK, DiskInv, NEW p \in Packages, NEW s \in Stages, s \notin marks[p],
         CanSucceed(p, s), StageDone(p, s), UNCHANGED marks
  PROVE  DiskInv' /\ s \in fresh'[p]
<1>1. marks[p] \cap (s..Install) = {}
  BY LaterUnmarked
<1>2. fresh'[p] = (IF Idle(p, s) THEN fresh[p] ELSE fresh[p] \ (s..Install)) \cup {s}
  BY DEF DiskOK, StageDone
<1>3. \A q \in Packages : q # p =>
        /\ fresh'[q] = fresh[q] /\ tree'[q] = tree[q] /\ patched'[q] = patched[q]
  BY DEF DiskOK, StageDone
<1>4. /\ tree'[p] = IF s = Sync THEN "source" ELSE tree[p]
      /\ patched'[p] = IF s = Patch /\ p \in Patches THEN "all" ELSE patched[p]
  BY DEF DiskOK, StageDone
<1>5. MarksAreCurrent'
  BY <1>1, <1>2, <1>3 DEF DiskInv, MarksAreCurrent
<1>6. MarksArePrefix'
  BY DEF DiskInv, MarksArePrefix
<1>7. FreshFitsTree'
  <2> SUFFICES ASSUME NEW q \in Packages
               PROVE  /\ Sync \in fresh'[q] => tree'[q] = "source"
                      /\ Patch \in fresh'[q] /\ q \in Patches => patched'[q] = "all"
    BY DEF FreshFitsTree
  <2>1. /\ Sync \in fresh[q] => tree[q] = "source"
        /\ Patch \in fresh[q] /\ q \in Patches => patched[q] = "all"
    BY DEF DiskInv, FreshFitsTree
  <2>2. CASE q # p
    BY <1>3, <2>1, <2>2
  <2>3. CASE q = p
    <3>1. s # Sync => (Sync \in fresh'[p] => Sync \in fresh[p])
      BY <1>2
    <3>2. s # Patch => (Patch \in fresh'[p] => Patch \in fresh[p])
      BY <1>2
    <3> QED BY <1>4, <2>1, <2>3, <3>1, <3>2
  <2> QED BY <2>2, <2>3
<1> QED BY <1>2, <1>5, <1>6, <1>7 DEF DiskInv

LEMMA StageBrokenInv ==
  ASSUME DiskOK, DiskInv, NEW p \in Packages, NEW s \in Stages, s \notin marks[p],
         StageBroken(p, s), UNCHANGED marks
  PROVE  DiskInv'
<1>1. marks[p] \cap (s..Install) = {}
  BY LaterUnmarked
<1>2. PICK how \in {"no", "some"} :
        patched' = [patched EXCEPT ![p] = IF s = Patch THEN how ELSE @]
  BY DEF StageBroken
<1>3. /\ fresh'[p] = fresh[p] \ (s..Install)
      /\ tree'[p] = IF s = Sync THEN "dir" ELSE tree[p]
      /\ s # Patch => patched'[p] = patched[p]
  BY <1>2 DEF DiskOK, StageBroken
<1>4. \A q \in Packages : q # p =>
        /\ fresh'[q] = fresh[q] /\ tree'[q] = tree[q] /\ patched'[q] = patched[q]
  BY <1>2 DEF DiskOK, StageBroken
<1>5. MarksAreCurrent'
  BY <1>1, <1>3, <1>4 DEF DiskInv, MarksAreCurrent
<1>6. MarksArePrefix'
  BY DEF DiskInv, MarksArePrefix
<1>7. FreshFitsTree'
  <2>1. Sync \in fresh'[p] => s # Sync /\ Sync \in fresh[p]
    BY <1>3 DEF Stages
  <2>2. Patch \in fresh'[p] => s # Patch /\ Patch \in fresh[p]
    BY <1>3 DEF Stages
  <2> QED BY <1>3, <1>4, <2>1, <2>2 DEF DiskInv, FreshFitsTree
<1> QED BY <1>5, <1>6, <1>7 DEF DiskInv

\* reX keeps the state files of the first stages only.
LEMMA RemovedInv ==
  ASSUME DiskOK, DiskInv, NEW p \in Packages, NEW c \in Commands,
         c.kind # "only", marks' = [marks EXCEPT ![p] = @ \ Removed(c)],
         UNCHANGED <<tree, patched, fresh>>
  PROVE  DiskInv'
<1>1. \A q \in Packages : marks'[q] = IF q = p THEN marks[p] \ Removed(c) ELSE marks[q]
  BY DEF DiskOK
<1>2. Removed(c) = {} \/ Removed(c) = c.stage..Install
  BY DEF Removed
<1>3. c.stage \in Stages
  BY CommandFacts
<1>4. MarksAreCurrent'
  BY <1>1 DEF DiskInv, MarksAreCurrent
<1>5. MarksArePrefix'
  <2> SUFFICES ASSUME NEW q \in Packages, NEW s \in marks'[q], NEW t \in Stages, t < s
               PROVE  t \in marks'[q]
    BY DEF MarksArePrefix
  <2>1. s \in marks[q] /\ s \in Stages
    BY <1>1 DEF DiskOK
  <2>2. t \in marks[q]
    BY <2>1 DEF DiskInv, MarksArePrefix
  <2>3. q = p => t \notin Removed(c)
    <3>1. q = p => s \notin Removed(c)
      BY <1>1
    <3> QED BY <1>2, <1>3, <2>1, <3>1 DEF Stages
  <2> QED BY <1>1, <2>2, <2>3
<1>6. FreshFitsTree'
  BY DEF DiskInv, FreshFitsTree
<1> QED BY <1>4, <1>5, <1>6 DEF DiskInv

LEMMA TouchInv ==
  ASSUME DiskOK, DiskInv, NEW p \in Packages, NEW s \in Stages, s \in fresh[p],
         \A t \in Stages : t < s => t \in marks[p],
         marks' = [marks EXCEPT ![p] = @ \cup {s}], UNCHANGED <<tree, patched, fresh>>
  PROVE  DiskInv' /\ \A t \in Stages : t <= s => t \in marks'[p]
<1>1. \A q \in Packages : marks'[q] = IF q = p THEN marks[p] \cup {s} ELSE marks[q]
  BY DEF DiskOK
<1>2. MarksAreCurrent'
  BY <1>1 DEF DiskInv, MarksAreCurrent
<1>3. MarksArePrefix'
  BY <1>1 DEF DiskInv, MarksArePrefix
<1>4. FreshFitsTree'
  BY DEF DiskInv, FreshFitsTree
<1>5. ASSUME NEW t \in Stages, t <= s PROVE t \in marks'[p]
  <2>1. t = s \/ t < s
    BY <1>5 DEF Stages
  <2> QED BY <1>1, <2>1
<1> QED BY <1>2, <1>3, <1>4, <1>5 DEF DiskInv
-----------------------------------------------------------------------------
LEMMA DiskInvStep ==
  ASSUME ArgsOK, DiskOK, DiskInv, EarlierAreMarked,
         "only" \notin Kinds, "torn" \notin Faults, [Next]_vars
  PROVE  DiskInv'
<1> USE DEF Running
<1>1. CASE UNCHANGED disk
  BY <1>1 DEF disk, DiskInv, MarksAreCurrent, MarksArePrefix, FreshFitsTree
<1>2. CASE Invoke \/ SkipStage \/ UNCHANGED vars
  BY <1>1, <1>2 DEF Invoke, SkipStage, vars, disk
<1>3. CASE CleanPackage \/ RemakePackage
  <2>1. RemoveTree(Pkg) /\ Pkg \in Packages
    BY <1>3, AtHand DEF CleanPackage, RemakePackage
  <2> QED BY <2>1, RemoveTreeInv
<1>4. CASE MakePackage
  <2>1. Pkg \in Packages /\ Cmd \in Commands
    BY <1>4, AtHand DEF MakePackage
  <2>2. Cmd.kind # "only"
    BY <2>1, CommandFacts
  <2>3. /\ marks' = [marks EXCEPT ![Pkg] = @ \ Removed(Cmd)]
        /\ UNCHANGED <<tree, patched, fresh>>
    BY <1>4 DEF MakePackage
  <2> QED BY <2>1, <2>2, <2>3, RemovedInv
<1>5. CASE RunStage
  <2>1. Pkg \in Packages /\ st \in Stages
    BY <1>5, AtHand DEF RunStage, ArgsOK
  <2> QED BY <1>5, <2>1, StageDoneInv DEF RunStage
<1>6. CASE FailStage
  <2>1. /\ Pkg \in Packages /\ st \in Stages /\ st \notin marks[Pkg]
        /\ StageFails(Pkg, st) /\ UNCHANGED marks
    BY <1>6, AtHand DEF FailStage, ArgsOK
  <2>2. CASE StageBroken(Pkg, st)
    BY <2>1, <2>2, StageBrokenInv
  <2>3. CASE UNCHANGED <<tree, patched, fresh>>
    BY <1>1, <2>1, <2>3 DEF disk
  <2> QED BY <2>1, <2>2, <2>3 DEF StageFails
<1>7. CASE TouchMark
  <2>1. Pkg \in Packages /\ st \in Stages
    BY <1>7, AtHand DEF TouchMark, ArgsOK
  <2>2. st \in fresh[Pkg] /\ \A t \in Stages : t < st => t \in marks[Pkg]
    BY <1>7 DEF TouchMark, EarlierAreMarked
  <2> QED BY <1>7, <2>1, <2>2, TouchInv DEF TouchMark
<1>8. CASE Kill
  <2>1. CASE /\ pc = "make" /\ st \notin marks[Pkg]
             /\ StageBroken(Pkg, st) /\ UNCHANGED marks
    <3>1. Pkg \in Packages /\ st \in Stages
      BY <2>1, AtHand DEF ArgsOK
    <3> QED BY <2>1, <3>1, StageBrokenInv
  <2> QED BY <1>1, <1>8, <2>1 DEF Kill
<1>9. CASE KillTorn
  BY <1>9 DEF KillTorn
<1> QED BY <1>2, <1>3, <1>4, <1>5, <1>6, <1>7, <1>8, <1>9 DEF Next

LEMMA EarlierStep ==
  ASSUME ArgsOK, DiskOK, EarlierAreMarked, [Next]_vars
  PROVE  EarlierAreMarked'
<1> USE DEF Running
<1>1. CASE Invoke \/ CleanPackage \/ FailStage \/ Kill \/ KillTorn
  <2>1. pc' \notin {"make", "touch"}
    <3>1. CASE Invoke \/ Kill \/ KillTorn
      BY <3>1 DEF Invoke, Kill, KillTorn
    <3>2. CASE CleanPackage
      BY <3>2, ScriptEndsFacts DEF CleanPackage
    <3>3. CASE FailStage
      BY <3>3, ScriptEndsFacts DEF FailStage
    <3> QED BY <1>1, <3>1, <3>2, <3>3
  <2> QED BY <2>1 DEF EarlierAreMarked
<1>2. CASE RemakePackage \/ MakePackage
  <2>1. pc' = "make" /\ st' = Sync
    BY <1>2 DEF RemakePackage, MakePackage
  <2> QED BY <2>1 DEF EarlierAreMarked, Stages
<1>3. CASE RunStage
  <2>1. Pkg \in Packages /\ st \in Stages
    BY <1>3, AtHand DEF RunStage, ArgsOK
  <2>2. st \in fresh'[Pkg]
    BY <1>3, <2>1 DEF RunStage, StageDone, DiskOK
  <2>3. Pkg' = Pkg /\ st' = st /\ marks' = marks /\ pc = "make"
    BY <1>3 DEF RunStage, args, Pkg
  <2> QED BY <2>2, <2>3 DEF EarlierAreMarked
<1>4. CASE SkipStage \/ TouchMark
  <2>1. /\ StageEnds /\ pc \in {"make", "touch"} /\ st \in Stages
        /\ Pkg \in Packages /\ UNCHANGED <<cmds, list>>
    BY <1>4, AtHand DEF SkipStage, TouchMark, args, ArgsOK
  <2>2. \A t \in Stages : t <= st => t \in marks'[Pkg]
    <3>1. \A t \in Stages : t < st => t \in marks[Pkg]
      BY <2>1 DEF EarlierAreMarked
    <3>2. marks[Pkg] \cup {st} \subseteq marks'[Pkg]
      BY <1>4, <2>1 DEF SkipStage, TouchMark, disk, DiskOK
    <3>3. \A t \in Stages : t <= st => t = st \/ t < st
      BY <2>1 DEF Stages
    <3> QED BY <3>1, <3>2, <3>3
  <2>3. CASE pc' = "make"
    <3>1. st' = st + 1 /\ pos' = pos
      BY <2>1, <2>3, StageEndsFacts
    <3>2. Pkg' = Pkg
      BY <2>1, <3>1 DEF Pkg
    <3>3. \A t \in Stages : t < st' => t <= st
      BY <2>1, <3>1 DEF Stages
    <3> QED BY <2>2, <2>3, <3>2, <3>3 DEF EarlierAreMarked
  <2>4. CASE pc' # "make"
    <3>1. pc' # "touch"
      BY <2>1, StageEndsFacts
    <3> QED BY <2>4, <3>1 DEF EarlierAreMarked
  <2> QED BY <2>3, <2>4
<1>5. CASE UNCHANGED vars
  BY <1>5 DEF vars, EarlierAreMarked, Pkg
<1> QED BY <1>1, <1>2, <1>3, <1>4, <1>5 DEF Next

LEMMA BStep ==
  ASSUME BuildStagesAssumption, "only" \notin Kinds, "torn" \notin Faults,
         BInv, [Next]_vars
  PROVE  BInv'
<1>1. ArgsOK /\ DiskOK /\ DiskInv /\ EarlierAreMarked
  BY TypeParts DEF BInv, DiskInv
<1>2. ArgsOK' /\ DiskOK' /\ DiskInv' /\ EarlierAreMarked'
  BY <1>1, ArgsStep, DiskStep, DiskInvStep, EarlierStep
<1> QED BY <1>2 DEF BInv, DiskInv, TypeOK, ArgsOK, DiskOK

LEMMA BInvariant ==
  ASSUME "only" \notin Kinds, "torn" \notin Faults
  PROVE  Spec => []BInv
<1>1. BInv /\ [Next]_vars => BInv'
  BY BuildStagesAssumption, BStep
<1> QED BY <1>1, BInit, PTL DEF Spec

\* With the re* commands, clean and remake, and unless an rm -rf is cut short,
\* a state file always stands for output that is up to date: of any number of
\* packages, after any failures, kills and commands (pkg_clean_for,
\* def_ex_make).  The plain commands break it: configuring again keeps the
\* state files of build and install.
THEOREM StateFilesAreTrue ==
  ASSUME "only" \notin Kinds, "torn" \notin Faults
  PROVE  Spec => []MarksAreCurrent
<1>1. BInv => MarksAreCurrent
  BY DEF BInv
<1> QED BY <1>1, BInvariant, PTL

\* Under the same conditions no stage configures, builds or installs anything
\* but the current output of the stages before it, in a tree that is unpacked
\* and patched once (def_ex_make).
THEOREM StagesBuildOnCurrent ==
  ASSUME "only" \notin Kinds, "torn" \notin Faults
  PROVE  Spec => []BuildsOnCurrent
<1>1. BInv => BuildsOnCurrent
  <2> SUFFICES ASSUME BInv, pc = "make", st > Patch
               PROVE  /\ tree[Pkg] = "source"
                      /\ Pkg \in Patches => patched[Pkg] = "all"
                      /\ 1..(st - 1) \subseteq fresh[Pkg]
    BY DEF BuildsOnCurrent
  <2>1. ArgsOK /\ DiskOK /\ Pkg \in Packages /\ st \in Stages
    BY TypeParts, AtHand DEF BInv, Running, ArgsOK
  <2>2. \A t \in Stages : t < st => t \in fresh[Pkg]
    BY <2>1 DEF BInv, EarlierAreMarked, MarksAreCurrent
  <2>3. Sync \in fresh[Pkg] /\ Patch \in fresh[Pkg]
    BY <2>1, <2>2 DEF Stages
  <2>4. 1..(st - 1) \subseteq fresh[Pkg]
    BY <2>1, <2>2 DEF Stages
  <2> QED BY <2>1, <2>3, <2>4 DEF BInv, FreshFitsTree
<1> QED BY <1>1, BInvariant, PTL
-----------------------------------------------------------------------------
\* The packages before the one at hand have been made by this command; a list
\* may name a package twice.
EarlierAreComplete ==
  /\ Running /\ Cmd.kind # "clean" =>
       \A j \in 1..(pos - 1) : Complete(list[j]) \/ list[j] = Pkg
  /\ pc \in {"make", "touch"} => Cmd.kind # "clean"

CInv == TypeOK /\ EarlierAreMarked /\ EarlierAreComplete

LEMMA CompleteStep ==
  ASSUME ArgsOK, DiskOK, EarlierAreMarked, EarlierAreComplete, ArgsOK', DiskOK',
         [Next]_vars
  PROVE  EarlierAreComplete'
<1> USE DEF Running
<1>1. CASE UNCHANGED vars
  BY <1>1 DEF vars, EarlierAreComplete, Complete, Pkg, Cmd
<1>2. CASE Kill \/ KillTorn
  BY <1>2 DEF Kill, KillTorn, EarlierAreComplete
<1>3. CASE Invoke
  <2>1. pc' = "package" /\ pos' = 1
    BY <1>3 DEF Invoke
  <2>2. 1..(pos' - 1) = {}
    BY <2>1
  <2> QED BY <2>1, <2>2 DEF EarlierAreComplete
\* mk.sh stays at the package.
<1>4. CASE RemakePackage \/ MakePackage \/ RunStage
  <2>1. /\ UNCHANGED <<cmds, list, ci, pos>> /\ Pkg \in Packages
        /\ pc \in {"package", "make"}
    BY <1>4, AtHand DEF RemakePackage, MakePackage, RunStage, args
  <2>2. Cmd.kind # "clean"
    BY <1>4 DEF RemakePackage, MakePackage, RunStage, EarlierAreComplete
  <2>3. Pkg' = Pkg /\ Cmd' = Cmd
    BY <2>1 DEF Pkg, Cmd
  <2>4. \A p \in Packages : p # Pkg => marks'[p] = marks[p]
    BY <1>4, <2>1 DEF RemakePackage, RemoveTree, MakePackage, RunStage, DiskOK
  <2>5. \A j \in 1..(pos - 1) : list[j] \in Packages
    BY <2>1 DEF ArgsOK
  <2> QED BY <2>1, <2>2, <2>3, <2>4, <2>5 DEF EarlierAreComplete, Complete
<1>5. CASE FailStage \/ CleanPackage
  <2>1. PICK ok \in BOOLEAN :
          /\ ScriptEnds(ok) /\ pc \in {"package", "make"}
          /\ ok => Cmd.kind = "clean"
          /\ UNCHANGED <<cmds, list>>
    BY <1>5 DEF FailStage, CleanPackage, args
  <2>2. /\ pc' \in {"package", "completed"}
        /\ pos' = 1 \/ pos' = pos \/ (ok /\ pos' = pos + 1 /\ ci' = ci)
        /\ pos' = pos => pc' = "completed" \/ pos = 1
    BY <2>1, ScriptEndsFacts
  <2>3. CASE pc' = "completed"
    BY <2>3 DEF EarlierAreComplete
  <2>4. CASE pos' = 1
    <3>1. 1..(pos' - 1) = {}
      BY <2>4
    <3> QED BY <2>2, <3>1 DEF EarlierAreComplete
  <2>5. CASE ok /\ ci' = ci
    <3>1. Cmd'.kind = "clean"
      BY <2>1, <2>5 DEF Cmd
    <3> QED BY <2>2, <3>1 DEF EarlierAreComplete
  <2> QED BY <2>2, <2>3, <2>4, <2>5
<1>6. CASE SkipStage \/ TouchMark
  <2>1. /\ StageEnds /\ pc \in {"make", "touch"} /\ Pkg \in Packages /\ st \in Stages
        /\ UNCHANGED <<cmds, list>> /\ Cmd.kind # "clean"
    BY <1>6, AtHand DEF SkipStage, TouchMark, args, ArgsOK, EarlierAreComplete
  <2>2. \A p \in Packages : marks[p] \subseteq marks'[p] /\ marks'[p] \subseteq Stages
    BY <1>6, <2>1 DEF SkipStage, TouchMark, disk, DiskOK
  <2>3. \A j \in 1..(pos - 1) :
          list[j] \in Packages /\ (Complete(list[j])' \/ list[j] = Pkg)
    <3>1. \A j \in 1..(pos - 1) : list[j] \in Packages
      BY <2>1 DEF ArgsOK
    <3>2. \A j \in 1..(pos - 1) : Complete(list[j]) \/ list[j] = Pkg
      BY <2>1 DEF EarlierAreComplete
    <3> QED BY <2>1, <2>2, <3>1, <3>2 DEF Complete
  <2>4. CASE st # Install
    <3>1. UNCHANGED <<ci, pos>> /\ pc' = "make"
      BY <2>1, <2>4 DEF StageEnds
    <3>2. Pkg' = Pkg /\ Cmd' = Cmd
      BY <2>1, <3>1 DEF Pkg, Cmd
    <3> QED BY <2>1, <2>3, <3>1, <3>2 DEF EarlierAreComplete
  <2>5. CASE st = Install
    <3>1. ScriptEnds(TRUE)
      BY <2>1, <2>5 DEF StageEnds
    <3>2. /\ pc' \in {"package", "completed"}
          /\ pos' = 1 \/ pos' = pos \/ (pos' = pos + 1 /\ ci' = ci)
          /\ pos' = pos => pc' = "completed" \/ pos = 1
      BY <2>1, <3>1, ScriptEndsFacts
    <3>3. CASE pc' = "completed"
      BY <3>3 DEF EarlierAreComplete
    <3>4. CASE pos' = 1
      <4>1. 1..(pos' - 1) = {}
        BY <3>4
      <4> QED BY <3>2, <4>1 DEF EarlierAreComplete
    <3>5. CASE pos' = pos + 1
      <4>1. Stages \subseteq marks'[Pkg]
        <5>1. \A t \in Stages : t < st => t \in marks[Pkg]
          BY <2>1 DEF EarlierAreMarked
        <5>2. st \in marks'[Pkg]
          BY <1>6, <2>1 DEF SkipStage, TouchMark, disk, DiskOK
        <5>3. \A t \in Stages : t = st \/ t < st
          BY <2>5 DEF Stages
        <5> QED BY <2>1, <2>2, <5>1, <5>2, <5>3
      <4>2. \A j \in 1..(pos' - 1) : j \in 1..(pos - 1) \/ list[j] = Pkg
        BY <3>5 DEF ArgsOK, Pkg
      <4>3. \A j \in 1..(pos' - 1) : marks'[list[j]] = Stages
        BY <2>1, <2>2, <2>3, <4>1, <4>2 DEF Complete
      <4> QED BY <2>1, <3>2, <4>3 DEF EarlierAreComplete, Complete
    <3> QED
      <4>1. pos' = pos /\ pos = 1 => pos' = 1
        OBVIOUS
      <4> QED BY <3>2, <3>3, <3>4, <3>5, <4>1
  <2> QED BY <2>4, <2>5
<1> QED BY <1>1, <1>2, <1>3, <1>4, <1>5, <1>6 DEF Next

LEMMA CInit == ASSUME Init PROVE CInv
  BY TypeInit DEF Init, CInv, EarlierAreMarked, EarlierAreComplete, Running

\* Dependencies first: whatever fails or is killed, with any commands, no
\* package is made while one it needs, of the same list, is not complete
\* (mk.sh:77 with the order of get_deps.sh).
THEOREM DependenciesFirst == Spec => []DepsBuiltFirst
<1>1. CInv /\ [Next]_vars => CInv'
  <2> SUFFICES ASSUME CInv, [Next]_vars PROVE CInv'
    OBVIOUS
  <2>1. ArgsOK /\ DiskOK /\ EarlierAreMarked /\ EarlierAreComplete
    BY TypeParts DEF CInv
  <2>2. ArgsOK' /\ DiskOK' /\ EarlierAreMarked'
    BY <2>1, BuildStagesAssumption, ArgsStep, DiskStep, EarlierStep
  <2>3. EarlierAreComplete'
    BY <2>1, <2>2, CompleteStep
  <2> QED BY <2>2, <2>3 DEF CInv, TypeOK, ArgsOK, DiskOK
<1>2. CInv => DepsBuiltFirst
  <2> SUFFICES ASSUME CInv, pc \in {"make", "touch"},
                      NEW j \in 1..Len(list), list[j] \in Deps[Pkg]
               PROVE  Complete(list[j])
    BY DEF DepsBuiltFirst
  <2>1. /\ list \in Lists /\ pos \in 1..Len(list) /\ Cmd.kind # "clean"
    BY DEF CInv, TypeOK, Running, EarlierAreComplete
  <2>2. \A i, k \in 1..Len(list) : list[k] \in Deps[list[i]] => k < i
    BY <2>1, BuildStagesAssumption DEF BuildStagesAssumption
  <2>3. j < pos
    BY <2>1, <2>2 DEF Pkg
  <2>4. list[j] # Pkg
    BY <2>1, <2>2 DEF Pkg
  <2>5. j \in 1..(pos - 1)
    BY <2>1, <2>3
  <2> QED BY <2>1, <2>4, <2>5 DEF CInv, EarlierAreComplete, Running
<1> QED BY <1>1, <1>2, CInit, PTL DEF Spec

\* mk.sh keeps to its lists and makes what a package needs before the package, for
\* any packages, lists and failures.
THEOREM ListsInOrder == Spec => []LoopInOrder
<1>1. TypeOK /\ DepsBuiltFirst => LoopInOrder
  BY DEF LoopInOrder
<1>2. QED
  BY <1>1, BuildTypeCorrect, DependenciesFirst, PTL

\* Without plain stage commands and torn removals, a state file stands for current
\* output and every stage rests on current output of the stages before it.
THEOREM CurrentOutput ==
  ASSUME "only" \notin Kinds, "torn" \notin Faults
  PROVE  Spec => []OutputIsCurrent
<1>1. MarksAreCurrent /\ BuildsOnCurrent => OutputIsCurrent
  BY DEF OutputIsCurrent
<1>2. QED
  BY <1>1, StateFilesAreTrue, StagesBuildOnCurrent, PTL
-----------------------------------------------------------------------------
\* A package that is complete is not touched by a build without a command: its state
\* files keep every stage from running, whatever fails or is killed.
LEMMA DefaultStep ==
  ASSUME ArgsOK, DiskOK, [Next]_vars, NEW p \in Packages,
         Running, Cmd.kind = "default", Complete(p)
  PROVE  marks'[p] = marks[p] /\ tree'[p] = tree[p] /\ patched'[p] = patched[p] /\ fresh'[p] = fresh[p]
<1>0. Pkg \in Packages /\ st \in Stages /\ Cmd \in Commands
  BY AtHand DEF ArgsOK
<1>a. st \notin marks[Pkg] => p # Pkg
  BY <1>0 DEF Complete
<1>b. Removed(Cmd) = {}
  BY DEF Removed
<1>1. CASE Invoke \/ CleanPackage \/ RemakePackage
  BY <1>1 DEF Invoke, CleanPackage, RemakePackage, Running
<1>2. CASE MakePackage
  BY <1>0, <1>2, <1>b DEF MakePackage, DiskOK
<1>3. CASE SkipStage \/ UNCHANGED vars
  BY <1>3 DEF SkipStage, disk, vars
<1>4. CASE RunStage
  BY <1>0, <1>4, <1>a DEF RunStage, StageDone, DiskOK
<1>5. ASSUME StageBroken(Pkg, st), p # Pkg
      PROVE  tree'[p] = tree[p] /\ patched'[p] = patched[p] /\ fresh'[p] = fresh[p]
  BY <1>0, <1>5 DEF StageBroken, DiskOK
<1>6. CASE FailStage
  BY <1>5, <1>6, <1>a DEF FailStage, StageFails
<1>7. CASE TouchMark
  <2>1. marks' = [marks EXCEPT ![Pkg] = marks[Pkg] \cup {st}] /\ UNCHANGED <<tree, patched, fresh>>
    BY <1>7 DEF TouchMark
  <2>2. p = Pkg => marks[Pkg] \cup {st} = marks[Pkg]
    BY <1>0 DEF Complete
  <2>3. QED
    BY <1>0, <2>1, <2>2 DEF DiskOK
<1>8. CASE Kill
  BY <1>5, <1>8, <1>a DEF Kill, disk
<1>9. CASE KillTorn
  BY <1>9, <1>b DEF KillTorn
<1> QED BY <1>1, <1>2, <1>3, <1>4, <1>6, <1>7, <1>8, <1>9 DEF Next

\* A build without a command leaves a complete package alone, with any packages,
\* commands before and after, failures and kills (def_ex_make).
THEOREM CompleteIsKept == Spec => DefaultKeepsDone
<1>1. TypeOK /\ [Next]_vars =>
        [\A p \in Packages : Running /\ Cmd.kind = "default" /\ Complete(p)
            => UNCHANGED <<marks[p], tree[p], patched[p], fresh[p]>>]_vars
  BY TypeParts, DefaultStep
<1> QED BY <1>1, BuildTypeCorrect, PTL DEF Spec, DefaultKeepsDone
-----------------------------------------------------------------------------
(***************************************************************************)
(* remake.  As no tool fails, it runs all stages of each package on the    *)
(* empty tree; what has been remade stays so until the command is over.    *)
(***************************************************************************)
Good(p) == Complete(p) /\ tree[p] = "source" /\ fresh[p] = Stages

\* How far the package at hand is.
RemadeSoFar ==
  /\ pc = "make" =>
       /\ marks[Pkg] = 1..(st - 1) /\ fresh[Pkg] = 1..(st - 1)
       /\ IF st = Sync THEN tree[Pkg] # "source" ELSE tree[Pkg] = "source"
       /\ st <= Patch => patched[Pkg] = "no"
  /\ pc = "touch" =>
       /\ marks[Pkg] = 1..(st - 1) /\ fresh[Pkg] = 1..st /\ tree[Pkg] = "source"
       /\ st = Sync => patched[Pkg] = "no"

RemakeGoesWell ==
  /\ Running /\ Cmd.kind = "remake" =>
       RemadeSoFar /\ \A j \in 1..(pos - 1) : Good(list[j]) \/ list[j] = Pkg
  /\ pc = "completed" /\ cmds[Len(cmds)].kind = "remake" => \A j \in 1..Len(list) : Good(list[j])

\* At the end of a script the package at hand has been remade.
LEMMA RemadeEnds ==
  ASSUME ArgsOK, RemakeGoesWell, Running, Cmd.kind = "remake",
         ScriptEnds(TRUE), UNCHANGED <<cmds, list>>,
         NEW q \in Packages, q = Pkg, Good(q)',
         \A p \in Packages : p # q => (Good(p) => Good(p)')
  PROVE  RemakeGoesWell'
<1>0. /\ ci \in Nat /\ pos \in Nat /\ ci >= 1 /\ ci <= Len(cmds) /\ pos >= 1 /\ pos <= Len(list)
      /\ \A j \in 1..Len(list) : list[j] \in Packages
      /\ Len(list) \in Nat /\ Len(cmds) \in Nat
  BY DEF ArgsOK
<1>1. \A j \in 1..(pos - 1) : Good(list[j]) \/ list[j] = Pkg
  BY DEF RemakeGoesWell
<1>2. Pkg = list[pos] /\ \A j \in 1..pos : j = pos \/ j \in 1..(pos - 1)
  BY <1>0 DEF Pkg
<1>3. \A j \in 1..pos : Good(list[j])'
  <2> SUFFICES ASSUME NEW j \in 1..pos PROVE Good(list[j])'
    OBVIOUS
  <2>1. list[j] \in Packages /\ list'[j] = list[j]
    BY <1>0
  <2>2. CASE list[j] = q
    BY <2>1, <2>2 DEF Good, Complete
  <2>3. CASE list[j] # q
    <3>1. Good(list[j])
      BY <1>1, <1>2, <2>3
    <3> QED BY <2>1, <2>3, <3>1 DEF Good, Complete
  <2> QED BY <2>2, <2>3
<1>4. CASE pos < Len(list)
  <2>1. pos' = pos + 1 /\ pc' = "package" /\ ci' = ci
    BY <1>4 DEF ScriptEnds
  <2>2. \A j \in 1..(pos' - 1) : Good(list[j])'
    BY <1>0, <1>3, <2>1
  <2> QED BY <2>1, <2>2 DEF RemakeGoesWell, RemadeSoFar
<1>5. CASE pos >= Len(list) /\ ci < Len(cmds)
  <2>1. pos' = 1 /\ pc' = "package"
    BY <1>0, <1>5 DEF ScriptEnds, NextCommand
  <2>2. 1..(pos' - 1) = {}
    BY <2>1
  <2> QED BY <2>1, <2>2 DEF RemakeGoesWell, RemadeSoFar
<1>6. CASE pos >= Len(list) /\ ci >= Len(cmds)
  <2>1. pc' = "completed" /\ pos = Len(list)
    BY <1>0, <1>6 DEF ScriptEnds, NextCommand
  <2> QED BY <1>3, <2>1 DEF RemakeGoesWell, Running
<1> QED BY <1>0, <1>4, <1>5, <1>6

\* The end of a script of another command: at the next package nothing is promised but
\* that the command goes on, and at the first one of a command nothing is to be shown.
LEMMA OtherEnds ==
  ASSUME ArgsOK, Running, Cmd.kind # "remake", NEW ok \in BOOLEAN, ScriptEnds(ok), UNCHANGED <<cmds, list>>
  PROVE  RemakeGoesWell'
<1>0. /\ ci \in Nat /\ pos \in Nat /\ ci >= 1 /\ ci <= Len(cmds) /\ pos >= 1 /\ pos <= Len(list)
      /\ Len(list) \in Nat /\ Len(cmds) \in Nat
  BY DEF ArgsOK
<1>1. CASE ok /\ pos < Len(list)
  <2>1. pc' = "package" /\ Cmd' = Cmd
    BY <1>1 DEF ScriptEnds, Cmd
  <2> QED BY <2>1 DEF RemakeGoesWell
<1>2. CASE ~(ok /\ pos < Len(list)) /\ ci < Len(cmds)
  <2>1. pos' = 1 /\ pc' = "package"
    BY <1>0, <1>2 DEF ScriptEnds, NextCommand
  <2>2. 1..(pos' - 1) = {}
    BY <2>1
  <2> QED BY <2>1, <2>2 DEF RemakeGoesWell, RemadeSoFar
<1>3. CASE ~(ok /\ pos < Len(list)) /\ ci >= Len(cmds)
  <2>1. pc' = "completed" /\ ci = Len(cmds)
    BY <1>0, <1>3 DEF ScriptEnds, NextCommand
  <2>2. cmds'[Len(cmds')].kind # "remake"
    BY <2>1 DEF Cmd
  <2> QED BY <2>1, <2>2 DEF RemakeGoesWell, Running
<1> QED BY <1>0, <1>1, <1>2, <1>3

LEMMA RemakeStep ==
  ASSUME BuildStagesAssumption, "tool" \notin Faults, ArgsOK, DiskOK, RemakeGoesWell, [Next]_vars
  PROVE  RemakeGoesWell'
<1>0. Running => Pkg \in Packages /\ st \in Stages /\ Cmd \in Commands
  BY AtHand DEF ArgsOK
<1>c. Running /\ Cmd.kind = "remake" => RemadeSoFar /\ \A j \in 1..(pos - 1) : Good(list[j]) \/ list[j] = Pkg
  BY DEF RemakeGoesWell
<1>d. /\ marks \in [Packages -> SUBSET Stages]
      /\ tree \in [Packages -> {"absent", "dir", "source"}]
      /\ patched \in [Packages -> {"no", "some", "all"}]
      /\ fresh \in [Packages -> SUBSET Stages]
  BY DEF DiskOK
<1>e. Running => \A j \in 1..(pos - 1) : list[j] \in Packages
  BY DEF ArgsOK
<1>1. CASE Invoke
  <2>1. pc' = "package" /\ pos' = 1
    BY <1>1 DEF Invoke
  <2>2. 1..(pos' - 1) = {}
    BY <2>1
  <2> QED BY <2>1, <2>2 DEF RemakeGoesWell, RemadeSoFar
<1>2. CASE CleanPackage
  <2>1. Running /\ Cmd.kind # "remake" /\ ScriptEnds(TRUE) /\ UNCHANGED <<cmds, list>>
    BY <1>2 DEF CleanPackage, Running, args
  <2> QED BY <2>1, OtherEnds
<1>3. CASE RemakePackage
  <2>1. /\ pc = "package" /\ pc' = "make" /\ st' = 1 /\ Cmd.kind = "remake" /\ RemoveTree(Pkg)
        /\ UNCHANGED <<cmds, list, ci, pos>>
    BY <1>3 DEF RemakePackage, args
  <2>2. Running /\ Pkg' = Pkg /\ Cmd' = Cmd /\ Pkg \in Packages
    BY <1>0, <2>1 DEF Running, Pkg, Cmd
  <2>3. marks'[Pkg] = {} /\ fresh'[Pkg] = {} /\ tree'[Pkg] = "absent" /\ patched'[Pkg] = "no"
    BY <1>d, <2>1, <2>2 DEF RemoveTree, SetTree
  <2>4. \A p \in Packages : p # Pkg => marks'[p] = marks[p] /\ fresh'[p] = fresh[p] /\ tree'[p] = tree[p]
    BY <1>d, <2>1, <2>2 DEF RemoveTree, SetTree
  <2>5. RemadeSoFar'
    <3>1. 1..(st' - 1) = {}
      BY <2>1
    <3> QED BY <2>1, <2>2, <2>3, <3>1 DEF RemadeSoFar
  <2>6. \A j \in 1..(pos' - 1) : Good(list[j])' \/ list'[j] = Pkg'
    BY <1>c, <1>e, <2>1, <2>2, <2>4 DEF Good, Complete
  <2> QED BY <2>1, <2>5, <2>6 DEF RemakeGoesWell
<1>4. CASE MakePackage
  <2>1. pc' = "make" /\ Cmd' = Cmd /\ Cmd.kind # "remake"
    BY <1>4 DEF MakePackage, args, Cmd
  <2> QED BY <2>1 DEF RemakeGoesWell
<1>5. CASE SkipStage
  <2>1. pc = "make" /\ st \in marks[Pkg] /\ StageEnds /\ UNCHANGED <<cmds, list>> /\ Running
    BY <1>5 DEF SkipStage, args, Running
  <2>2. Cmd.kind # "remake"
    BY <1>0, <1>c, <2>1 DEF RemadeSoFar, Stages
  <2>3. CASE st = Install
    BY <2>1, <2>2, <2>3, OtherEnds DEF StageEnds
  <2>4. CASE st # Install
    <3>1. pc' = "make" /\ Cmd' = Cmd
      BY <2>1, <2>4 DEF StageEnds, Cmd
    <3> QED BY <2>2, <3>1 DEF RemakeGoesWell
  <2> QED BY <2>3, <2>4
<1>6. CASE RunStage
  <2>1. /\ pc = "make" /\ pc' = "touch" /\ UNCHANGED <<cmds, list, ci, pos, st, marks>>
        /\ StageDone(Pkg, st) /\ Running
    BY <1>6 DEF RunStage, args, Running
  <2>2. Pkg' = Pkg /\ Cmd' = Cmd /\ Pkg \in Packages /\ st \in Stages
    BY <1>0, <2>1 DEF Pkg, Cmd
  <2> SUFFICES ASSUME Cmd.kind = "remake"
               PROVE  RemakeGoesWell'
    BY <2>1, <2>2 DEF RemakeGoesWell
  <2>3. /\ marks[Pkg] = 1..(st - 1) /\ fresh[Pkg] = 1..(st - 1)
        /\ IF st = Sync THEN tree[Pkg] # "source" ELSE tree[Pkg] = "source"
        /\ st <= Patch => patched[Pkg] = "no"
    BY <1>c, <2>1 DEF RemadeSoFar
  <2>4. tree'[Pkg] = "source" /\ (st = Sync => patched'[Pkg] = patched[Pkg])
    BY <1>d, <2>1, <2>2, <2>3 DEF StageDone
  <2>5. fresh'[Pkg] = (IF Idle(Pkg, st) THEN fresh[Pkg] ELSE fresh[Pkg] \ (st..Install)) \cup {st}
    BY <1>d, <2>1, <2>2 DEF StageDone
  <2>6. fresh'[Pkg] = 1..st
    <3>1. (1..(st - 1)) \ (st..Install) = 1..(st - 1) /\ 1..(st - 1) \cup {st} = 1..st
      BY <2>2 DEF Stages
    <3> QED BY <2>3, <2>5, <3>1
  <2>7. \A p \in Packages : p # Pkg => fresh'[p] = fresh[p] /\ tree'[p] = tree[p]
    BY <1>d, <2>1, <2>2 DEF StageDone
  <2>8. RemadeSoFar'
    BY <2>1, <2>2, <2>3, <2>4, <2>6 DEF RemadeSoFar
  <2>9. \A j \in 1..(pos' - 1) : Good(list[j])' \/ list'[j] = Pkg'
    BY <1>c, <1>e, <2>1, <2>2, <2>7 DEF Good, Complete
  <2> QED BY <2>1, <2>8, <2>9 DEF RemakeGoesWell
<1>7. CASE FailStage
  <2>1. /\ pc = "make" /\ Running /\ ~CanSucceed(Pkg, st) /\ ScriptEnds(FALSE) /\ UNCHANGED <<cmds, list>>
    BY <1>7 DEF FailStage, StageFails, Running, args
  <2>2. Cmd.kind # "remake"
    <3> SUFFICES ASSUME Cmd.kind = "remake"
                 PROVE  CanSucceed(Pkg, st)
      BY <2>1
    <3>1. /\ IF st = Sync THEN tree[Pkg] # "source" ELSE tree[Pkg] = "source"
          /\ st <= Patch => patched[Pkg] = "no"
      BY <1>c, <2>1 DEF RemadeSoFar
    <3> QED BY <3>1 DEF CanSucceed
  <2> QED BY <2>1, <2>2, OtherEnds
<1>8. CASE TouchMark
  <2>1. /\ pc = "touch" /\ Running /\ StageEnds /\ UNCHANGED <<cmds, list, tree, patched, fresh>>
        /\ marks' = [marks EXCEPT ![Pkg] = @ \cup {st}]
    BY <1>8 DEF TouchMark, Running, args
  <2>2. Pkg \in Packages /\ st \in Stages
    BY <1>0, <2>1
  <2>3. CASE Cmd.kind # "remake"
    <3>1. CASE st = Install
      BY <2>1, <2>3, <3>1, OtherEnds DEF StageEnds
    <3>2. CASE st # Install
      <4>1. pc' = "make" /\ Cmd' = Cmd
        BY <2>1, <3>2 DEF StageEnds, Cmd
      <4> QED BY <2>3, <4>1 DEF RemakeGoesWell
    <3> QED BY <3>1, <3>2
  <2>4. CASE Cmd.kind = "remake"
    <3>1. /\ marks[Pkg] = 1..(st - 1) /\ fresh[Pkg] = 1..st /\ tree[Pkg] = "source"
          /\ st = Sync => patched[Pkg] = "no"
      BY <1>c, <2>1, <2>4 DEF RemadeSoFar
    <3>2. marks'[Pkg] = 1..st
      <4>1. 1..(st - 1) \cup {st} = 1..st
        BY <2>2 DEF Stages
      <4> QED BY <1>d, <2>1, <2>2, <3>1, <4>1
    <3>3. \A p \in Packages : p # Pkg => marks'[p] = marks[p]
      BY <1>d, <2>1, <2>2
    <3>4. CASE st = Install
      <4>1. PICK q \in Packages : q = Pkg
        BY <2>2
      <4>2. Good(q)'
        <5>1. 1..st = Stages
          BY <3>4 DEF Stages
        <5>2. marks'[Pkg] = Stages /\ fresh'[Pkg] = Stages /\ tree'[Pkg] = "source"
          BY <2>1, <3>1, <3>2, <5>1
        <5> QED BY <4>1, <5>2 DEF Good, Complete
      <4>3. \A p \in Packages : p # q => (Good(p) => Good(p)')
        BY <2>1, <3>3, <4>1 DEF Good, Complete
      <4>4. ScriptEnds(TRUE)
        BY <2>1, <3>4 DEF StageEnds
      <4> QED BY <2>1, <2>4, <4>1, <4>2, <4>3, <4>4, RemadeEnds
    <3>5. CASE st # Install
      <4>1. pc' = "make" /\ st' = st + 1 /\ UNCHANGED <<ci, pos>>
        BY <2>1, <3>5 DEF StageEnds
      <4>2. Pkg' = Pkg /\ Cmd' = Cmd
        BY <2>1, <4>1 DEF Pkg, Cmd
      <4>3. st' - 1 = st /\ st' # Sync /\ (st' <= Patch => st = Sync)
        BY <2>2, <4>1 DEF Stages
      <4>4. RemadeSoFar'
        BY <2>1, <3>1, <3>2, <4>1, <4>2, <4>3 DEF RemadeSoFar
      <4>5. \A j \in 1..(pos' - 1) : Good(list[j])' \/ list'[j] = Pkg'
        BY <1>c, <1>e, <2>1, <2>4, <3>3, <4>1, <4>2 DEF Good, Complete
      <4> QED BY <4>1, <4>4, <4>5 DEF RemakeGoesWell
    <3> QED BY <3>4, <3>5
  <2> QED BY <2>3, <2>4
<1>9. CASE Kill \/ KillTorn
  BY <1>9 DEF Kill, KillTorn, RemakeGoesWell, Running
<1>10. CASE UNCHANGED vars
  BY <1>10 DEF vars, RemakeGoesWell, RemadeSoFar, Good, Complete, Running, Pkg, Cmd
<1> QED BY <1>1, <1>2, <1>3, <1>4, <1>5, <1>6, <1>7, <1>8, <1>9, <1>10 DEF Next

\* While no tool fails, remake brings every package of its list into order, whatever
\* commands, kills and torn removals were before (make_com_script.sh:229).
THEOREM RemakeIsARepair ==
  ASSUME "tool" \notin Faults
  PROVE  Spec => []RemakeRepairs
<1>1. Init => RemakeGoesWell
  BY DEF Init, RemakeGoesWell, Running
<1>2. TypeOK /\ RemakeGoesWell /\ [Next]_vars => RemakeGoesWell'
  BY BuildStagesAssumption, TypeParts, RemakeStep
<1>3. RemakeGoesWell => RemakeRepairs
  BY DEF RemakeGoesWell, RemakeRepairs, Good
<1> QED BY <1>1, <1>2, <1>3, BuildTypeCorrect, PTL DEF Spec

-----------------------------------------------------------------------------
(* The list of packages: what is in it and what is on the levels is closed  *)
(* but for what the levels have still to look at.                           *)

\* The packages of the levels.
Stacked == {levels[k].pkg : k \in 1 .. Len(levels)}

\* What is in the list or will be.
Reached == ToSet(active) \cup Stacked

LevelKind == [pkg : Known, deps : Seq(Known), un : SUBSET Known, went : SUBSET Known]

\* What was gone into was reached.
WentReached ==
  \A k \in 1 .. Len(levels) :
    levels[k].un \subseteq levels[k].went /\ levels[k].went \subseteq Reached

\* A level knows the packages of those above the first, down to its own, and these
\* differ from each other.
LevelsDiffer ==
  /\ \A j, k \in 2 .. Len(levels) : j <= k => levels[j].pkg \in levels[k].un
  /\ \A j, k \in 2 .. Len(levels) : levels[j].pkg = levels[k].pkg => j = k

\* What a package of a level needs was reached or is still to be looked at.
NeedsReached ==
  \A k \in 1 .. Len(levels) :
    Needs(levels[k].pkg) \subseteq Reached \cup ToSet(levels[k].deps)

\* A level looks at what its package needs, and has gone into one of them.
LevelsFollow ==
  /\ \A k \in 1 .. Len(levels) : ToSet(levels[k].deps) \subseteq Needs(levels[k].pkg)
  /\ \A k \in 1 .. Len(levels) - 1 : levels[k + 1].pkg \in Needs(levels[k].pkg)

\* What is in the list has what it needs in it or on a level.
ListReached ==
  asked \subseteq Reached /\ \A q \in ToSet(active) : Needs(q) \subseteq Reached

\* Without a cycle, in it.
ListOrdered == (Acyclic => Closed(ToSet(active))) /\ DepsComeFirst

\* Nothing was reached that need not be.
ReachedLeast == \A S \in SUBSET Known : asked \subseteq S /\ Closed(S) => Reached \subseteq S

\* The invariant of get_deps.sh.
DepsInv == /\ ListTypeOK /\ WentReached /\ LevelsDiffer /\ NeedsReached /\ LevelsFollow
           /\ ListReached /\ ListOrdered /\ ReachedLeast

-----------------------------------------------------------------------------
\* The elements of a sequence.
LEMMA ElementsIs ==
  ASSUME NEW T, NEW s \in Seq(T)
  PROVE  /\ ToSet(s) \subseteq T /\ ToSet(s) = {s[i] : i \in 1 .. Len(s)} /\ Len(s) \in Nat
         /\ s = << >> => ToSet(s) = {}
         /\ s # << >> => Head(s) \in T /\ Tail(s) \in Seq(T)
                          /\ ToSet(s) = {Head(s)} \cup ToSet(Tail(s))
<1>1. /\ ToSet(s) \subseteq T /\ ToSet(s) = {s[i] : i \in 1 .. Len(s)} /\ Len(s) \in Nat
      /\ s = << >> => ToSet(s) = {}
  BY DEF ToSet
<1>2. ASSUME s # << >>
      PROVE  /\ Head(s) \in T /\ Tail(s) \in Seq(T)
             /\ ToSet(s) = {Head(s)} \cup ToSet(Tail(s))
  <2>1. PICK t, n : t = Tail(s) /\ n = Len(s)
    OBVIOUS
  <2>2. /\ Head(s) \in T /\ t \in Seq(T) /\ n \in Nat /\ n >= 1 /\ Len(t) = n - 1
        /\ Head(s) = s[1] /\ \A k \in 1 .. n - 1 : t[k] = s[k + 1]
    BY <1>2, <2>1
  <2>3. ToSet(t) = {t[k] : k \in 1 .. n - 1}
    BY <2>2 DEF ToSet
  <2>4. ASSUME NEW x \in ToSet(s) PROVE x \in {s[1]} \cup ToSet(t)
    <3>1. PICK k \in 1 .. n : x = s[k]
      BY <1>1, <2>1, <2>4
    <3>2. CASE k = 1
      BY <3>1, <3>2
    <3>3. CASE k # 1
      <4>1. k - 1 \in 1 .. n - 1 /\ (k - 1) + 1 = k
        BY <2>2, <3>3
      <4>2. t[k - 1] = x
        BY <2>2, <3>1, <4>1
      <4> QED BY <2>3, <4>1, <4>2
    <3> QED BY <3>2, <3>3
  <2>5. ASSUME NEW x \in {s[1]} \cup ToSet(t) PROVE x \in ToSet(s)
    <3>1. CASE x = s[1]
      BY <1>1, <2>1, <2>2, <3>1
    <3>2. CASE x # s[1]
      <4>1. PICK k \in 1 .. n - 1 : x = t[k]
        BY <2>3, <2>5, <3>2
      <4>2. k + 1 \in 1 .. n /\ x = s[k + 1]
        BY <2>2, <4>1
      <4> QED BY <1>1, <2>1, <4>2
    <3> QED BY <3>1, <3>2
  <2> QED BY <2>1, <2>2, <2>4, <2>5
<1> QED BY <1>1, <1>2

\* One element more.
LEMMA AppendIs ==
  ASSUME NEW T, NEW s \in Seq(T), NEW x \in T
  PROVE  /\ Append(s, x) \in Seq(T) /\ Len(Append(s, x)) = Len(s) + 1
         /\ Append(s, x)[Len(s) + 1] = x
         /\ \A k \in 1 .. Len(s) : Append(s, x)[k] = s[k]
         /\ ToSet(Append(s, x)) = ToSet(s) \cup {x}
<1>1. PICK n, t : n = Len(s) /\ t = Append(s, x)
  OBVIOUS
<1>2. /\ n \in Nat /\ t \in Seq(T) /\ Len(t) = n + 1 /\ t[n + 1] = x
      /\ \A k \in 1 .. n : t[k] = s[k]
  BY <1>1
<1>3. DOMAIN t = 1 .. n + 1 /\ DOMAIN s = 1 .. n
  BY <1>1, <1>2
<1>4. 1 .. n + 1 = (1 .. n) \cup {n + 1}
  BY <1>2
<1>5. ToSet(t) = ToSet(s) \cup {x}
  BY <1>2, <1>3, <1>4 DEF ToSet
<1> QED BY <1>1, <1>2, <1>5

\* The package of a level is put into the list, if it is not there.
LEMMA WithPackageIs ==
  ASSUME NEW s \in Seq(Known), NEW x \in Known, IsInjective(s), NEW t, t = WithPackage(x, s)
  PROVE  t \in Seq(Known) /\ IsInjective(t) /\ ToSet(t) = ToSet(s) \cup {x}
<1>1. CASE x \in ToSet(s)
  BY <1>1 DEF WithPackage
<1>2. CASE x \notin ToSet(s)
  <2>1. PICK n : n = Len(s)
    OBVIOUS
  <2>2. t = Append(s, x)
    BY <1>2 DEF WithPackage
  <2>3. /\ t \in Seq(Known) /\ Len(t) = n + 1 /\ t[n + 1] = x /\ n \in Nat
        /\ \A k \in 1 .. n : t[k] = s[k]
        /\ ToSet(t) = ToSet(s) \cup {x}
    BY <2>1, <2>2, AppendIs
  <2>4. \A k \in 1 .. n : s[k] # x
    BY <1>2, <2>1 DEF ToSet
  <2>5. ASSUME NEW i \in 1 .. n + 1, NEW j \in 1 .. n + 1, t[i] = t[j]
        PROVE  i = j
    <3>1. i \in 1 .. n \/ i = n + 1
      BY <2>3
    <3>2. j \in 1 .. n \/ j = n + 1
      BY <2>3
    <3>3. CASE i \in 1 .. n /\ j \in 1 .. n
      BY <2>1, <2>3, <2>5, <3>3 DEF IsInjective
    <3> QED BY <2>3, <2>4, <2>5, <3>1, <3>2, <3>3
  <2>6. IsInjective(t)
    BY <2>3, <2>5 DEF IsInjective
  <2> QED BY <2>3, <2>6
<1> QED BY <1>1, <1>2

\* A level has its types.
LEMMA LevelIs ==
  ASSUME ListTypeOK, NEW k \in 1 .. Len(levels)
  PROVE  /\ levels[k] \in LevelKind
         /\ levels[k].pkg \in Known /\ levels[k].deps \in Seq(Known)
         /\ levels[k].un \subseteq Known /\ levels[k].went \subseteq Known
<1>1. levels \in Seq(LevelKind)
  BY DEF ListTypeOK, LevelKind
<1>2. levels[k] \in LevelKind
  BY <1>1
<1> QED BY <1>2 DEF LevelKind

\* The innermost level.
LEMMA TopIs ==
  ASSUME ListTypeOK, levels # << >>
  PROVE  Len(levels) \in Nat /\ Len(levels) >= 1 /\ Len(levels) \in 1 .. Len(levels)
<1>1. levels \in Seq(LevelKind)
  BY DEF ListTypeOK, LevelKind
<1> QED BY <1>1

\* What a package needs.
LEMMA NeedsIs ==
  ASSUME ListTypeOK, NEW q \in Known
  PROVE  dic[q] \in Seq(Known) /\ Needs(q) \subseteq Known /\ Needs(q) = ToSet(dic[q])
<1>1. dic[q] \in Seq(Known)
  BY DEF ListTypeOK
<1> QED BY <1>1, ElementsIs DEF Needs

\* The innermost level n has done with its next dependency, and is otherwise the same.
Stepped(n, now, w) ==
  /\ w \in Seq(LevelKind) /\ Len(w) = n
  /\ \A k \in 1 .. n : w[k].pkg = levels[k].pkg /\ w[k].un = levels[k].un
  /\ \A k \in 1 .. n : k # n => w[k] = levels[k]
  /\ w[n].deps = Tail(levels[n].deps) /\ w[n].went = now

LEMMA SteppedIs ==
  ASSUME ListTypeOK, NEW n, n = Len(levels), n >= 1, levels[n].deps # << >>,
         NEW now \in SUBSET Known
  PROVE  Stepped(n, now, [levels EXCEPT ![n].deps = Tail(@), ![n].went = now])
<1>1. PICK l, m : l = levels[n] /\ m = [l EXCEPT !.deps = Tail(@), !.went = now]
  OBVIOUS
<1>2. levels \in Seq(LevelKind) /\ n \in Nat /\ n \in 1 .. n
  BY DEF ListTypeOK, LevelKind
<1>3. l \in LevelKind /\ l.deps \in Seq(Known) /\ l.deps # << >>
  BY <1>1, <1>2, LevelIs
<1>4. Tail(l.deps) \in Seq(Known)
  BY <1>3
<1>5. /\ m \in LevelKind /\ m.pkg = l.pkg /\ m.un = l.un /\ m.deps = Tail(l.deps)
      /\ m.went = now
  BY <1>1, <1>3, <1>4 DEF LevelKind
<1>6. PICK w : w = [levels EXCEPT ![n] = m]
  OBVIOUS
<1>7. [levels EXCEPT ![n].deps = Tail(@), ![n].went = now] = w
  BY <1>1, <1>2, <1>6
<1>8. /\ w \in Seq(LevelKind) /\ Len(w) = n /\ w[n] = m
      /\ \A k \in 1 .. n : k # n => w[k] = levels[k]
  BY <1>2, <1>5, <1>6
<1>9. \A k \in 1 .. n : w[k].pkg = levels[k].pkg /\ w[k].un = levels[k].un
  BY <1>1, <1>5, <1>8
<1> QED BY <1>1, <1>5, <1>7, <1>8, <1>9 DEF Stepped

\* The dependency is passed over.
Skipped(n, i) ==
  /\ n = Len(levels) /\ n \in Nat /\ n >= 1
  /\ levels[n].deps # << >> /\ i = Head(levels[n].deps)
  /\ i \in levels[n].un \cup ToSet(active)
  /\ Stepped(n, levels[n].went, levels')
  /\ dic' = dic /\ todo' = todo /\ asked' = asked /\ active' = active

LEMMA SkipIs ==
  ASSUME ListTypeOK, Skip
  PROVE  \E n, i : Skipped(n, i)
<1>1. PICK n, l : n = Len(levels) /\ l = levels[n]
  OBVIOUS
<1>2. n \in Nat /\ n >= 1 /\ n \in 1 .. n
  BY <1>1, TopIs DEF Skip
<1>3. l.deps # << >> /\ Head(l.deps) \in l.un \cup ToSet(active)
  BY <1>1 DEF Skip, Top, PassedOver
<1>4. l \in LevelKind /\ l.went \in SUBSET Known
  BY <1>1, <1>2, LevelIs
<1>5. levels' = [levels EXCEPT ![n].deps = Tail(@), ![n].went = l.went]
  <2>1. levels' = [levels EXCEPT ![n].deps = Tail(@)]
    BY <1>1 DEF Skip
  <2>2. PICK m, o : m = [l EXCEPT !.deps = Tail(@)] /\ o = [l EXCEPT !.deps = Tail(@), !.went = l.went]
    OBVIOUS
  <2>3. m = o
    BY <1>4, <2>2 DEF LevelKind
  <2>4. levels \in Seq(LevelKind)
    BY DEF ListTypeOK, LevelKind
  <2>5. [levels EXCEPT ![n].deps = Tail(@)] = [levels EXCEPT ![n] = m]
    BY <1>1, <1>2, <2>2, <2>4
  <2>6. [levels EXCEPT ![n].deps = Tail(@), ![n].went = l.went] = [levels EXCEPT ![n] = o]
    BY <1>1, <1>2, <2>2, <2>4
  <2> QED BY <2>1, <2>3, <2>5, <2>6
<1>6. Stepped(n, l.went, levels')
  BY <1>1, <1>2, <1>3, <1>4, <1>5, SteppedIs
<1>7. Skipped(n, Head(l.deps))
  BY <1>1, <1>2, <1>3, <1>6 DEF Skip, Skipped
<1> QED BY <1>7

\* The dependency is gone into.
Entered(n, i) ==
  /\ n = Len(levels) /\ n \in Nat /\ n >= 1
  /\ levels[n].deps # << >> /\ i = Head(levels[n].deps)
  /\ i \notin levels[n].un /\ i \notin ToSet(active) /\ i \in Known
  /\ \E w : /\ Stepped(n, levels[n].went \cup {i}, w)
            /\ levels' \in Seq(LevelKind) /\ Len(levels') = n + 1
            /\ \A k \in 1 .. n : levels'[k] = w[k]
            /\ levels'[n + 1] = Level(i, levels[n].went \cup {i})
  /\ dic' = dic /\ todo' = todo /\ asked' = asked /\ active' = active

LEMMA GoIntoIs ==
  ASSUME ListTypeOK, GoInto
  PROVE  \E n, i : Entered(n, i)
<1>1. PICK n, l, i : n = Len(levels) /\ l = levels[n] /\ i = Head(l.deps)
  OBVIOUS
<1>2. n \in Nat /\ n >= 1 /\ n \in 1 .. n
  BY <1>1, TopIs DEF GoInto
<1>3. l.deps # << >> /\ i \notin l.un /\ i \notin ToSet(active)
  BY <1>1 DEF GoInto, Top, PassedOver
<1>4. l \in LevelKind /\ l.went \in SUBSET Known /\ l.deps \in Seq(Known)
  BY <1>1, <1>2, LevelIs
<1>5. i \in Known
  BY <1>1, <1>3, <1>4, ElementsIs
<1>6. PICK now, w, m : /\ now = l.went \cup {i} /\ m = Level(i, now)
                        /\ w = [levels EXCEPT ![n].deps = Tail(@), ![n].went = now]
  OBVIOUS
<1>7. levels' = Append(w, m)
  BY <1>1, <1>6 DEF GoInto, Top
<1>8. Stepped(n, now, w)
  <2>1. now \in SUBSET Known
    BY <1>4, <1>5, <1>6
  <2> QED BY <1>1, <1>2, <1>3, <1>6, <2>1, SteppedIs
<1>9. m \in LevelKind
  <2>1. now \in SUBSET Known /\ dic[i] \in Seq(Known)
    BY <1>4, <1>5, <1>6, NeedsIs
  <2> QED BY <1>5, <1>6, <2>1 DEF Level, LevelKind
<1>10. /\ levels' \in Seq(LevelKind) /\ Len(levels') = n + 1 /\ levels'[n + 1] = m
       /\ \A k \in 1 .. n : levels'[k] = w[k]
  <2>1. w \in Seq(LevelKind) /\ Len(w) = n
    BY <1>8 DEF Stepped
  <2> QED BY <1>2, <1>7, <1>9, <2>1
<1>11. Entered(n, i)
  BY <1>1, <1>2, <1>3, <1>5, <1>6, <1>8, <1>10 DEF GoInto, Entered
<1> QED BY <1>11

\* A level ends.
Ended(n) ==
  /\ n = Len(levels) /\ n \in Nat /\ n >= 1 /\ levels[n].deps = << >>
  /\ levels' \in Seq(LevelKind) /\ Len(levels') = n - 1
  /\ \A k \in 1 .. n - 1 : levels'[k] = levels[k]
  /\ active' = WithPackage(levels[n].pkg, active)
  /\ dic' = dic /\ todo' = todo /\ asked' = asked

LEMMA ReturnIs ==
  ASSUME ListTypeOK, Return
  PROVE  \E n : Ended(n)
<1>1. PICK n : n = Len(levels)
  OBVIOUS
<1>2. n \in Nat /\ n >= 1
  BY <1>1, TopIs DEF Return
<1>3. levels[n].deps = << >> /\ active' = WithPackage(levels[n].pkg, active)
  BY <1>1 DEF Return, Top
<1>4. levels' = SubSeq(levels, 1, n - 1)
  BY <1>1 DEF Return, Front
<1>5. levels \in Seq(LevelKind)
  BY DEF ListTypeOK, LevelKind
<1>6. /\ levels' \in Seq(LevelKind) /\ Len(levels') = n - 1
      /\ \A k \in 1 .. n - 1 : levels'[k] = levels[k]
  BY <1>1, <1>2, <1>4, <1>5
<1>7. Ended(n)
  BY <1>1, <1>2, <1>3, <1>6 DEF Return, Ended
<1> QED BY <1>7

\* What a dependency that is passed over leaves: the same packages on the levels, the
\* same list, and one thing less to look at.
LEMMA SkipKeeps ==
  ASSUME DepsInv, NEW n, NEW i, Skipped(n, i)
  PROVE  DepsInv'
<1>1. /\ n = Len(levels) /\ n \in Nat /\ n >= 1 /\ n \in 1 .. n
      /\ levels[n].deps # << >> /\ i = Head(levels[n].deps)
      /\ i \in levels[n].un \cup ToSet(active)
      /\ dic' = dic /\ todo' = todo /\ asked' = asked /\ active' = active
  BY DEF Skipped
<1>2. /\ levels' \in Seq(LevelKind) /\ Len(levels') = n
      /\ \A k \in 1 .. n : levels'[k].pkg = levels[k].pkg /\ levels'[k].un = levels[k].un
      /\ \A k \in 1 .. n : k # n => levels'[k] = levels[k]
      /\ levels'[n].deps = Tail(levels[n].deps) /\ levels'[n].went = levels[n].went
  BY DEF Skipped, Stepped
<1>0. ListTypeOK
  BY DEF DepsInv
<1>3. Stacked' = Stacked /\ Reached' = Reached
  BY <1>1, <1>2 DEF Stacked, Reached
<1>4. \A q \in Known : Needs(q)' = Needs(q)
  BY <1>1 DEF Needs
<1>5. i \in Known /\ ToSet(levels[n].deps) = {i} \cup ToSet(Tail(levels[n].deps))
  BY <1>0, <1>1, LevelIs, ElementsIs
<1>6. i \in Reached
  BY <1>1 DEF DepsInv, WentReached, Reached
<1>7. ListTypeOK'
  BY <1>0, <1>1, <1>2 DEF ListTypeOK, LevelKind
<1>8. WentReached'
  <2>1. ASSUME NEW k \in 1 .. n
        PROVE  levels'[k].un \subseteq levels'[k].went /\ levels'[k].went \subseteq Reached
    <3>1. levels'[k].un = levels[k].un /\ levels'[k].went = levels[k].went
      BY <1>2
    <3> QED BY <1>1, <3>1 DEF DepsInv, WentReached
  <2> QED BY <1>2, <1>3, <2>1 DEF WentReached
<1>9. LevelsDiffer'
  <2>1. \A k \in 2 .. n : levels'[k].pkg = levels[k].pkg /\ levels'[k].un = levels[k].un
    BY <1>2
  <2> QED BY <1>1, <1>2, <2>1 DEF DepsInv, LevelsDiffer
<1>10. NeedsReached'
  <2>1. ASSUME NEW k \in 1 .. n
        PROVE  Needs(levels[k].pkg) \subseteq Reached \cup ToSet(levels'[k].deps)
    <3>1. Needs(levels[k].pkg) \subseteq Reached \cup ToSet(levels[k].deps)
      BY <1>1 DEF DepsInv, NeedsReached
    <3>2. CASE k # n
      BY <1>2, <3>1, <3>2
    <3>3. CASE k = n
      BY <1>2, <1>5, <1>6, <3>1, <3>3
    <3> QED BY <3>2, <3>3
  <2>2. \A k \in 1 .. n : levels'[k].pkg = levels[k].pkg /\ levels[k].pkg \in Known
    BY <1>0, <1>1, <1>2, LevelIs
  <2> QED BY <1>2, <1>3, <1>4, <2>1, <2>2 DEF NeedsReached
<1>11. LevelsFollow'
  <2>1. \A k \in 1 .. n : levels'[k].pkg = levels[k].pkg /\ levels[k].pkg \in Known
    BY <1>0, <1>1, <1>2, LevelIs
  <2>2. ASSUME NEW k \in 1 .. n PROVE ToSet(levels'[k].deps) \subseteq Needs(levels[k].pkg)
    <3>1. ToSet(levels[k].deps) \subseteq Needs(levels[k].pkg)
      BY <1>1 DEF DepsInv, LevelsFollow
    <3>2. CASE k # n
      BY <1>2, <3>1, <3>2
    <3>3. CASE k = n
      BY <1>2, <1>5, <3>1, <3>3
    <3> QED BY <3>2, <3>3
  <2>3. ASSUME NEW k \in 1 .. n - 1 PROVE levels'[k + 1].pkg \in Needs(levels[k].pkg)
    <3>1. k + 1 \in 1 .. n
      BY <1>1
    <3>2. levels[k + 1].pkg \in Needs(levels[k].pkg)
      BY <1>1 DEF DepsInv, LevelsFollow
    <3> QED BY <2>1, <3>1, <3>2
  <2>4. \A k \in 1 .. n : Needs(levels[k].pkg)' = Needs(levels[k].pkg)
    <3> SUFFICES ASSUME NEW k \in 1 .. n PROVE Needs(levels[k].pkg)' = Needs(levels[k].pkg)
      OBVIOUS
    <3>1. levels'[k].pkg = levels[k].pkg
      BY <2>1
    <3> QED BY <1>1, <3>1 DEF Needs
  <2>5. \A k \in 1 .. n : ToSet(levels'[k].deps) \subseteq Needs(levels[k].pkg)'
    BY <2>2, <2>4
  <2>6. \A k \in 1 .. n - 1 : levels'[k + 1].pkg \in Needs(levels[k].pkg)'
    <3>1. \A k \in 1 .. n - 1 : k \in 1 .. n
      BY <1>1
    <3> QED BY <2>3, <2>4, <3>1
  <2> QED BY <1>2, <2>5, <2>6 DEF LevelsFollow
<1>12. ListReached'
  <2>1. ToSet(active) \subseteq Known
    BY <1>0, ElementsIs DEF ListTypeOK
  <2> QED BY <1>1, <1>3, <1>4, <2>1 DEF DepsInv, ListReached
<1>13. ListOrdered'
  BY <1>1 DEF DepsInv, ListOrdered, Acyclic, Closed, DepsComeFirst, Needs
<1>14. ReachedLeast'
  BY <1>1, <1>3 DEF DepsInv, ReachedLeast, Closed, Needs
<1> QED BY <1>7, <1>8, <1>9, <1>10, <1>11, <1>12, <1>13, <1>14 DEF DepsInv

\* What going into a dependency leaves: one package more on the levels, all of whose
\* needs are still to be looked at.
LEMMA GoIntoKeeps ==
  ASSUME DepsInv, NEW n, NEW i, Entered(n, i)
  PROVE  DepsInv'
<1>1. /\ n = Len(levels) /\ n \in Nat /\ n >= 1 /\ n \in 1 .. n
      /\ levels[n].deps # << >> /\ i = Head(levels[n].deps)
      /\ i \notin levels[n].un /\ i \notin ToSet(active) /\ i \in Known
      /\ dic' = dic /\ todo' = todo /\ asked' = asked /\ active' = active
  BY DEF Entered
<1>2. PICK w : /\ Stepped(n, levels[n].went \cup {i}, w)
               /\ levels' \in Seq(LevelKind) /\ Len(levels') = n + 1
               /\ \A k \in 1 .. n : levels'[k] = w[k]
               /\ levels'[n + 1] = Level(i, levels[n].went \cup {i})
  BY DEF Entered
<1>3. PICK now : now = levels[n].went \cup {i}
  OBVIOUS
<1>4. /\ \A k \in 1 .. n : levels'[k].pkg = levels[k].pkg /\ levels'[k].un = levels[k].un
      /\ \A k \in 1 .. n : k # n => levels'[k] = levels[k]
      /\ levels'[n].deps = Tail(levels[n].deps) /\ levels'[n].went = now
  BY <1>1, <1>2, <1>3 DEF Stepped
<1>5. /\ levels'[n + 1].pkg = i /\ levels'[n + 1].deps = dic[i]
      /\ levels'[n + 1].un = now /\ levels'[n + 1].went = now
  BY <1>2, <1>3 DEF Level
<1>6. 1 .. n + 1 = (1 .. n) \cup {n + 1}
  BY <1>1
<1>0. ListTypeOK
  BY DEF DepsInv
<1>7. Stacked' = Stacked \cup {i} /\ Reached' = Reached \cup {i}
  BY <1>1, <1>2, <1>4, <1>5, <1>6 DEF Stacked, Reached
<1>8. \A q \in Known : Needs(q)' = Needs(q)
  BY <1>1 DEF Needs
<1>9. ToSet(levels[n].deps) = {i} \cup ToSet(Tail(levels[n].deps))
  BY <1>0, <1>1, LevelIs, ElementsIs
<1>10. Needs(i) = ToSet(dic[i])
  BY <1>0, <1>1, NeedsIs
<1>11. i \in Needs(levels[n].pkg)
  BY <1>1, <1>9 DEF DepsInv, LevelsFollow
<1>12. \A k \in 1 .. n : levels[k].pkg \in Known
  BY <1>0, <1>1, LevelIs
<1>13. ListTypeOK'
  BY <1>0, <1>1, <1>2 DEF ListTypeOK, LevelKind
<1>14. WentReached'
  <2>1. ASSUME NEW k \in 1 .. n
        PROVE  /\ levels'[k].un \subseteq levels'[k].went
               /\ levels'[k].went \subseteq Reached \cup {i}
    <3>1. levels[k].un \subseteq levels[k].went /\ levels[k].went \subseteq Reached
      BY <1>1 DEF DepsInv, WentReached
    <3>2. CASE k # n
      BY <1>4, <3>1, <3>2
    <3>3. CASE k = n
      BY <1>3, <1>4, <3>1, <3>3
    <3> QED BY <3>2, <3>3
  <2>2. now \subseteq Reached \cup {i}
    BY <1>1, <1>3 DEF DepsInv, WentReached
  <2> QED BY <1>2, <1>5, <1>6, <1>7, <2>1, <2>2 DEF WentReached
<1>15. LevelsDiffer'
  <2>1. \A k \in 2 .. n : levels[k].pkg \in levels[n].un /\ levels[k].pkg \in now
    <3> SUFFICES ASSUME NEW k \in 2 .. n
                 PROVE  levels[k].pkg \in levels[n].un /\ levels[k].pkg \in now
      OBVIOUS
    <3>1. n \in 2 .. n /\ k <= n
      BY <1>1
    <3>2. levels[k].pkg \in levels[n].un
      BY <1>1, <3>1 DEF DepsInv, LevelsDiffer
    <3>3. levels[n].un \subseteq levels[n].went
      BY <1>1 DEF DepsInv, WentReached
    <3> QED BY <1>3, <3>2, <3>3
  <2>2. \A k \in 2 .. n : levels'[k].pkg = levels[k].pkg /\ levels'[k].un = levels[k].un
    BY <1>4
  <2>3. i \in now
    BY <1>3
  <2>4. 2 .. n + 1 = (2 .. n) \cup {n + 1}
    BY <1>1
  <2>5. \A k \in 2 .. n : levels[k].pkg # i
    BY <1>1, <2>1
  <2>6. ASSUME NEW j \in 2 .. n + 1, NEW k \in 2 .. n + 1, j <= k
        PROVE  levels'[j].pkg \in levels'[k].un
    <3>1. CASE k \in 2 .. n
      <4>1. j \in 2 .. n
        BY <1>1, <2>6, <3>1
      <4>2. levels[j].pkg \in levels[k].un
        BY <1>1, <2>6, <3>1, <4>1 DEF DepsInv, LevelsDiffer
      <4> QED BY <2>2, <3>1, <4>1, <4>2
    <3>2. CASE k = n + 1
      <4>1. levels'[k].un = now
        BY <1>5, <3>2
      <4>2. CASE j = n + 1
        BY <1>5, <2>3, <4>1, <4>2
      <4>3. CASE j \in 2 .. n
        BY <2>1, <2>2, <4>1, <4>3
      <4> QED BY <2>4, <4>2, <4>3
    <3> QED BY <2>4, <3>1, <3>2
  <2>7. ASSUME NEW j \in 2 .. n + 1, NEW k \in 2 .. n + 1, levels'[j].pkg = levels'[k].pkg
        PROVE  j = k
    <3>1. CASE j \in 2 .. n /\ k \in 2 .. n
      <4>1. levels[j].pkg = levels[k].pkg
        BY <2>2, <2>7, <3>1
      <4> QED BY <1>1, <3>1, <4>1 DEF DepsInv, LevelsDiffer
    <3>2. CASE j = n + 1 /\ k \in 2 .. n
      BY <1>5, <2>2, <2>5, <2>7, <3>2
    <3>3. CASE k = n + 1 /\ j \in 2 .. n
      BY <1>5, <2>2, <2>5, <2>7, <3>3
    <3>4. CASE j = n + 1 /\ k = n + 1
      BY <3>4
    <3> QED BY <2>4, <3>1, <3>2, <3>3, <3>4
  <2> QED BY <1>2, <2>6, <2>7 DEF LevelsDiffer
<1>16. NeedsReached'
  <2>1. ASSUME NEW k \in 1 .. n
        PROVE  Needs(levels[k].pkg) \subseteq Reached \cup {i} \cup ToSet(levels'[k].deps)
    <3>1. Needs(levels[k].pkg) \subseteq Reached \cup ToSet(levels[k].deps)
      BY <1>1 DEF DepsInv, NeedsReached
    <3>2. CASE k # n
      BY <1>4, <3>1, <3>2
    <3>3. CASE k = n
      BY <1>4, <1>9, <3>1, <3>3
    <3> QED BY <3>2, <3>3
  <2>2. ASSUME NEW k \in 1 .. n + 1
        PROVE  Needs(levels'[k].pkg) \subseteq Reached \cup {i} \cup ToSet(levels'[k].deps)
               /\ levels'[k].pkg \in Known
    <3>1. CASE k \in 1 .. n
      BY <1>4, <1>12, <2>1, <3>1
    <3>2. CASE k = n + 1
      BY <1>1, <1>5, <1>10, <3>2
    <3> QED BY <1>6, <3>1, <3>2
  <2> QED BY <1>2, <1>7, <1>8, <2>2 DEF NeedsReached
<1>17. LevelsFollow'
  <2>1. ASSUME NEW k \in 1 .. n PROVE ToSet(levels'[k].deps) \subseteq Needs(levels[k].pkg)
    <3>1. ToSet(levels[k].deps) \subseteq Needs(levels[k].pkg)
      BY <1>1 DEF DepsInv, LevelsFollow
    <3>2. CASE k # n
      BY <1>4, <3>1, <3>2
    <3>3. CASE k = n
      BY <1>4, <1>9, <3>1, <3>3
    <3> QED BY <3>2, <3>3
  <2>2. ASSUME NEW k \in 1 .. n + 1
        PROVE  ToSet(levels'[k].deps) \subseteq Needs(levels'[k].pkg) /\ levels'[k].pkg \in Known
    <3>1. CASE k \in 1 .. n
      BY <1>4, <1>12, <2>1, <3>1
    <3>2. CASE k = n + 1
      BY <1>1, <1>5, <1>10, <3>2
    <3> QED BY <1>6, <3>1, <3>2
  <2>3. ASSUME NEW k \in 1 .. n
        PROVE  levels'[k + 1].pkg \in Needs(levels'[k].pkg) /\ levels'[k].pkg \in Known
    <3>1. levels'[k].pkg = levels[k].pkg /\ levels[k].pkg \in Known
      BY <1>4, <1>12
    <3>2. CASE k = n
      BY <1>5, <1>11, <3>1, <3>2
    <3>3. CASE k # n
      <4>1. k \in 1 .. n - 1 /\ k + 1 \in 1 .. n
        BY <1>1, <3>3
      <4>2. levels[k + 1].pkg \in Needs(levels[k].pkg)
        BY <1>1, <4>1 DEF DepsInv, LevelsFollow
      <4> QED BY <1>4, <3>1, <4>1, <4>2
    <3> QED BY <3>2, <3>3
  <2>4. (n + 1) - 1 = n
    BY <1>1
  <2>5. \A k \in 1 .. n + 1 : ToSet(levels'[k].deps) \subseteq Needs(levels[k].pkg)'
    BY <1>1, <2>2 DEF Needs
  <2>6. \A k \in 1 .. n : levels'[k + 1].pkg \in Needs(levels[k].pkg)'
    BY <1>1, <2>3 DEF Needs
  <2> QED BY <1>2, <2>4, <2>5, <2>6 DEF LevelsFollow
<1>18. ListReached'
  <2>1. ToSet(active) \subseteq Known
    BY <1>0, ElementsIs DEF ListTypeOK
  <2> QED BY <1>1, <1>7, <1>8, <2>1 DEF DepsInv, ListReached
<1>19. ListOrdered'
  BY <1>1 DEF DepsInv, ListOrdered, Acyclic, Closed, DepsComeFirst, Needs
<1>20. ReachedLeast'
  <2> SUFFICES ASSUME NEW S \in SUBSET Known, asked' \subseteq S, Closed(S)'
               PROVE  Reached' \subseteq S
    BY DEF ReachedLeast
  <2>1. asked \subseteq S /\ Closed(S)
    BY <1>1 DEF Closed, Needs
  <2>2. Reached \subseteq S
    BY <2>1 DEF DepsInv, ReachedLeast
  <2>3. levels[n].pkg \in S
    BY <1>1, <2>2 DEF Reached, Stacked
  <2>4. i \in S
    BY <1>11, <2>1, <2>3 DEF Closed
  <2> QED BY <1>7, <2>2, <2>4
<1> QED BY <1>13, <1>14, <1>15, <1>16, <1>17, <1>18, <1>19, <1>20 DEF DepsInv

\* Without a cycle what a level has looked at is all in the list when it ends: the
\* levels lead from one package to the next, so that none of them is needed again.
LEMMA TopHasAll ==
  ASSUME DepsInv, Acyclic, NEW n, n = Len(levels), n >= 1, levels[n].deps = << >>
  PROVE  Needs(levels[n].pkg) \subseteq ToSet(active)
<1>0. ListTypeOK /\ n \in Nat /\ n \in 1 .. n
  BY DEF DepsInv, ListTypeOK
<1> SUFFICES ASSUME NEW q \in Needs(levels[n].pkg), q \notin ToSet(active) PROVE FALSE
  OBVIOUS
<1>1. q \in Stacked
  <2>1. Needs(levels[n].pkg) \subseteq Reached \cup ToSet(levels[n].deps)
    BY <1>0 DEF DepsInv, NeedsReached
  <2>2. ToSet(levels[n].deps) = {}
    BY <1>0, LevelIs, ElementsIs
  <2> QED BY <2>1, <2>2 DEF Reached
<1>2. PICK j \in 1 .. n : q = levels[j].pkg
  BY <1>1 DEF Stacked
<1>3. PICK S : S = {levels[k].pkg : k \in j .. n}
  OBVIOUS
<1>4. j \in j .. n /\ \A k \in j .. n : k \in 1 .. n
  BY <1>0
<1>5. S \in (SUBSET Known) \ {{}}
  <2>1. \A k \in 1 .. n : levels[k].pkg \in Known
    BY <1>0, LevelIs
  <2>2. S \subseteq Known
    <3>1. \A k \in j .. n : levels[k].pkg \in Known
      BY <1>4, <2>1
    <3> QED BY <1>3, <3>1
  <2>3. levels[j].pkg \in S
    BY <1>3, <1>4
  <2> QED BY <2>2, <2>3
<1>6. PICK x \in S : Needs(x) \cap S = {}
  BY <1>5 DEF Acyclic
<1>7. PICK k \in j .. n : x = levels[k].pkg
  BY <1>3, <1>6
<1>8. CASE k = n
  <2>1. q \in Needs(x) /\ q \in S
    BY <1>2, <1>3, <1>4, <1>7, <1>8
  <2> QED BY <1>6, <2>1
<1>9. CASE k # n
  <2>1. k \in 1 .. n - 1 /\ k + 1 \in j .. n
    BY <1>0, <1>9
  <2>2. levels[k + 1].pkg \in Needs(x)
    BY <1>7, <2>1 DEF DepsInv, LevelsFollow
  <2>3. levels[k + 1].pkg \in S
    BY <1>3, <2>1
  <2> QED BY <1>6, <2>2, <2>3
<1> QED BY <1>8, <1>9

\* A package after all that it needs.
LEMMA OrderKept ==
  ASSUME ListTypeOK, NEW x \in Known, Closed(ToSet(active)), DepsComeFirst, Acyclic,
         Needs(x) \subseteq ToSet(active), NEW t, t = WithPackage(x, active),
         NEW i \in 1 .. Len(t), NEW j \in 1 .. Len(t), t[j] \in Needs(t[i])
  PROVE  j < i
<1>0. active \in Seq(Known) /\ Len(active) \in Nat
  BY DEF ListTypeOK
<1>1. CASE x \in ToSet(active)
  BY <1>1 DEF WithPackage, DepsComeFirst
<1>2. CASE x \notin ToSet(active)
  <2>1. PICK n, a : n = Len(active) /\ a = ToSet(active)
    OBVIOUS
  <2>2. t = Append(active, x)
    BY <1>2 DEF WithPackage
  <2>3. /\ n \in Nat /\ Len(t) = n + 1 /\ t[n + 1] = x
        /\ \A k \in 1 .. n : t[k] = active[k]
    BY <1>0, <2>1, <2>2, AppendIs
  <2>4. \A k \in 1 .. n : active[k] \in a
    BY <1>0, <2>1 DEF ToSet
  <2>5. x \notin Needs(x) /\ \A k \in 1 .. n : x \notin Needs(active[k])
    BY <1>2, <2>1, <2>4 DEF Closed
  <2>6. i \in 1 .. n \/ i = n + 1
    BY <2>3
  <2>7. j \in 1 .. n \/ j = n + 1
    BY <2>3
  <2>8. t[j] # x
    <3>1. CASE i = n + 1
      BY <2>3, <2>5, <3>1
    <3>2. CASE i \in 1 .. n
      BY <2>3, <2>5, <3>2
    <3> QED BY <2>6, <3>1, <3>2
  <2>9. j \in 1 .. n
    BY <2>3, <2>7, <2>8
  <2>10. CASE i = n + 1
    BY <2>3, <2>9, <2>10
  <2>11. CASE i \in 1 .. n
    <3>1. active[j] \in Needs(active[i])
      BY <2>3, <2>9, <2>11
    <3> QED BY <2>1, <2>9, <2>11, <3>1 DEF DepsComeFirst
  <2> QED BY <2>6, <2>10, <2>11
<1> QED BY <1>1, <1>2

\* What the end of a level leaves: its package is in the list.
LEMMA ReturnKeeps ==
  ASSUME DepsInv, NEW n, Ended(n)
  PROVE  DepsInv'
<1>1. /\ n = Len(levels) /\ n \in Nat /\ n >= 1 /\ n \in 1 .. n /\ levels[n].deps = << >>
      /\ levels' \in Seq(LevelKind) /\ Len(levels') = n - 1
      /\ \A k \in 1 .. n - 1 : levels'[k] = levels[k]
      /\ dic' = dic /\ todo' = todo /\ asked' = asked
  BY DEF Ended
<1>2. PICK x : x = levels[n].pkg
  OBVIOUS
<1>3. active' = WithPackage(x, active)
  BY <1>2 DEF Ended
<1>0. ListTypeOK
  BY DEF DepsInv
<1>4. x \in Known
  BY <1>0, <1>1, <1>2, LevelIs
<1>5. active' \in Seq(Known) /\ IsInjective(active') /\ ToSet(active') = ToSet(active) \cup {x}
  <2>1. active \in Seq(Known) /\ IsInjective(active)
    BY <1>0 DEF ListTypeOK
  <2>2. /\ WithPackage(x, active) \in Seq(Known) /\ IsInjective(WithPackage(x, active))
        /\ ToSet(WithPackage(x, active)) = ToSet(active) \cup {x}
    BY <1>4, <2>1, WithPackageIs
  <2> QED BY <1>3, <2>2
<1>6. 1 .. n = (1 .. n - 1) \cup {n}
  BY <1>1
<1>7. Reached' = Reached
  <2>1. Stacked = {levels[k].pkg : k \in 1 .. n - 1} \cup {x}
    BY <1>1, <1>2, <1>6 DEF Stacked
  <2>2. Stacked' = {levels[k].pkg : k \in 1 .. n - 1}
    BY <1>1 DEF Stacked
  <2> QED BY <1>5, <2>1, <2>2 DEF Reached
<1>8. \A k \in 1 .. n - 1 : k \in 1 .. n
  BY <1>1
<1>9. ListTypeOK'
  BY <1>0, <1>1, <1>5 DEF ListTypeOK, LevelKind
<1>10. WentReached'
  BY <1>1, <1>7, <1>8 DEF DepsInv, WentReached
<1>11. LevelsDiffer'
  <2>1. \A k \in 2 .. n - 1 : levels'[k] = levels[k] /\ k \in 2 .. n
    BY <1>1
  <2> QED BY <1>1, <2>1 DEF DepsInv, LevelsDiffer
<1>12. NeedsReached'
  <2>1. \A k \in 1 .. n - 1 :
          Needs(levels[k].pkg)' \subseteq Reached \cup ToSet(levels'[k].deps)
    BY <1>1, <1>8 DEF DepsInv, NeedsReached, Needs
  <2> QED BY <1>1, <1>7, <2>1 DEF NeedsReached
<1>13. LevelsFollow'
  <2>1. \A k \in 1 .. n - 1 : ToSet(levels'[k].deps) \subseteq Needs(levels[k].pkg)'
    BY <1>1, <1>8 DEF DepsInv, LevelsFollow, Needs
  <2>2. ASSUME NEW k \in 1 .. (n - 1) - 1
        PROVE  levels'[k + 1].pkg \in Needs(levels[k].pkg)'
    <3>1. k \in 1 .. n - 1 /\ k + 1 \in 1 .. n - 1
      BY <1>1
    <3>2. levels[k + 1].pkg \in Needs(levels[k].pkg)
      BY <1>1, <3>1 DEF DepsInv, LevelsFollow
    <3> QED BY <1>1, <3>1, <3>2 DEF Needs
  <2> QED BY <1>1, <2>1, <2>2 DEF LevelsFollow
<1>14. ListReached'
  <2>1. Needs(x) \subseteq Reached
    <3>1. Needs(x) \subseteq Reached \cup ToSet(levels[n].deps)
      BY <1>1, <1>2 DEF DepsInv, NeedsReached
    <3>2. ToSet(levels[n].deps) = {}
      BY <1>0, <1>1, LevelIs, ElementsIs
    <3> QED BY <3>1, <3>2
  <2>2. ASSUME NEW q \in ToSet(active') PROVE Needs(q)' \subseteq Reached
    <3>1. Needs(q) \subseteq Reached
      BY <1>5, <2>1, <2>2 DEF DepsInv, ListReached
    <3>2. Needs(q)' = Needs(q)
      BY <1>1 DEF Needs
    <3> QED BY <3>1, <3>2
  <2> QED BY <1>1, <1>7, <2>2 DEF DepsInv, ListReached
<1>15. ListOrdered'
  <2> SUFFICES ASSUME Acyclic' PROVE Closed(ToSet(active))' /\ DepsComeFirst'
    BY DEF ListOrdered, DepsComeFirst
  <2>1. Acyclic
    BY <1>1 DEF Acyclic, Needs
  <2>2. Closed(ToSet(active)) /\ DepsComeFirst
    BY <2>1 DEF DepsInv, ListOrdered
  <2>3. Needs(x) \subseteq ToSet(active)
    BY <1>1, <1>2, <2>1, TopHasAll
  <2>4. Closed(ToSet(active))'
    <3>1. ASSUME NEW q \in ToSet(active') PROVE Needs(q)' \subseteq ToSet(active')
      <4>1. Needs(q) \subseteq ToSet(active)
        BY <1>5, <2>2, <2>3, <3>1 DEF Closed
      <4>2. Needs(q)' = Needs(q)
        BY <1>1 DEF Needs
      <4> QED BY <1>5, <4>1, <4>2
    <3> QED BY <3>1 DEF Closed
  <2>5. DepsComeFirst'
    <3>1. ASSUME NEW i \in 1 .. Len(active'), NEW j \in 1 .. Len(active'),
                 active'[j] \in Needs(active[i])'
          PROVE  j < i
      <4>1. active'[j] \in Needs(active'[i])
        BY <1>1, <3>1 DEF Needs
      <4>2. PICK t : t = WithPackage(x, active)
        OBVIOUS
      <4>3. i \in 1 .. Len(t) /\ j \in 1 .. Len(t) /\ t[j] \in Needs(t[i])
        BY <1>3, <4>1, <4>2
      <4> QED BY <1>0, <1>4, <2>1, <2>2, <2>3, <4>2, <4>3, OrderKept
    <3> QED BY <3>1 DEF DepsComeFirst
  <2> QED BY <2>4, <2>5
<1>16. ReachedLeast'
  BY <1>1, <1>7 DEF DepsInv, ReachedLeast, Closed, Needs
<1> QED BY <1>9, <1>10, <1>11, <1>12, <1>13, <1>14, <1>15, <1>16 DEF DepsInv

\* What a new package that is asked for leaves: one level, which has all to look at.
LEMMA AskKeeps ==
  ASSUME DepsInv, NextAsked
  PROVE  DepsInv'
<1>0. ListTypeOK
  BY DEF DepsInv
<1>1. PICK x, m : x = Head(todo) /\ m = Level(x, {})
  OBVIOUS
<1>2. /\ levels = << >> /\ todo # << >> /\ levels' = <<m>> /\ asked' = asked \cup {x}
      /\ todo' = Tail(todo) /\ dic' = dic /\ active' = active
  BY <1>1 DEF NextAsked
<1>3. x \in Known /\ todo' \in Seq(Known)
  BY <1>0, <1>1, <1>2, ElementsIs DEF ListTypeOK
<1>4. m.pkg = x /\ m.deps = dic[x] /\ m.un = {} /\ m.went = {} /\ m \in LevelKind
  <2>1. dic[x] \in Seq(Known)
    BY <1>0, <1>3, NeedsIs
  <2> QED BY <1>1, <1>3, <2>1 DEF Level, LevelKind
<1>5. Len(levels') = 1 /\ levels'[1] = m /\ levels' \in Seq(LevelKind)
  BY <1>2, <1>4
<1>6. Reached = ToSet(active) /\ Reached' = Reached \cup {x}
  <2>1. Stacked = {}
    BY <1>2 DEF Stacked
  <2>2. Stacked' = {x}
    BY <1>4, <1>5 DEF Stacked
  <2> QED BY <1>2, <2>1, <2>2 DEF Reached
<1>7. ToSet(dic[x]) = Needs(x) /\ \A q : Needs(q)' = Needs(q)
  BY <1>2 DEF Needs
<1>8. ListTypeOK'
  BY <1>0, <1>2, <1>3, <1>5 DEF ListTypeOK, LevelKind
<1>9. WentReached'
  BY <1>4, <1>5 DEF WentReached
<1>10. LevelsDiffer'
  BY <1>5 DEF LevelsDiffer
<1>11. NeedsReached' /\ LevelsFollow'
  <2>1. \A k \in 1 .. 1 : k = 1
    OBVIOUS
  <2>2. Needs(levels[1].pkg)' = Needs(x)
    BY <1>2, <1>4, <1>5 DEF Needs
  <2>3. ToSet(levels'[1].deps) = Needs(x)
    BY <1>4, <1>5, <1>7
  <2> QED BY <1>5, <2>1, <2>2, <2>3 DEF NeedsReached, LevelsFollow
<1>12. ListReached'
  <2>1. asked' \subseteq Reached'
    BY <1>2, <1>6 DEF DepsInv, ListReached
  <2>2. \A q \in ToSet(active) : Needs(q) \subseteq Reached
    BY DEF DepsInv, ListReached
  <2> QED BY <1>2, <1>6, <1>7, <2>1, <2>2 DEF ListReached
<1>13. ListOrdered'
  BY <1>2 DEF DepsInv, ListOrdered, Acyclic, Closed, DepsComeFirst, Needs
<1>14. ReachedLeast'
  <2> SUFFICES ASSUME NEW S \in SUBSET Known, asked' \subseteq S, Closed(S)'
               PROVE  Reached' \subseteq S
    BY DEF ReachedLeast
  <2>1. asked \subseteq S /\ x \in S /\ Closed(S)
    BY <1>2 DEF Closed, Needs
  <2>2. Reached \subseteq S
    BY <2>1 DEF DepsInv, ReachedLeast
  <2> QED BY <1>6, <2>1, <2>2
<1> QED BY <1>8, <1>9, <1>10, <1>11, <1>12, <1>13, <1>14 DEF DepsInv

-----------------------------------------------------------------------------
LEMMA DepsStarts ==
  ASSUME GetDepsInit
  PROVE  DepsInv
<1>1. \A n \in Nat : ListsOf(Known, n) \subseteq Seq(Known)
  BY DEF ListsOf
<1>2. dic \in [Known -> Seq(Known)] /\ todo \in Seq(Known)
  BY <1>1, DepClosureAssumption DEF GetDepsInit
<1>3. /\ active = << >> /\ levels = << >> /\ Len(levels) = 0 /\ asked = {} /\ Len(active) = 0
  BY DEF GetDepsInit
<1>4. active \in Seq(Known) /\ levels \in Seq(LevelKind) /\ IsInjective(active) /\ ToSet(active) = {}
  BY <1>3 DEF IsInjective, ToSet
<1>5. Reached = {}
  BY <1>3, <1>4 DEF Reached, Stacked
<1>6. ListTypeOK
  BY <1>2, <1>3, <1>4 DEF ListTypeOK, LevelKind
<1>7. WentReached /\ LevelsDiffer /\ NeedsReached /\ LevelsFollow
  BY <1>3 DEF WentReached, LevelsDiffer, NeedsReached, LevelsFollow
<1>8. ListReached /\ ListOrdered /\ ReachedLeast
  BY <1>3, <1>4, <1>5 DEF ListReached, ListOrdered, ReachedLeast, Closed, DepsComeFirst
<1> QED BY <1>6, <1>7, <1>8 DEF DepsInv

LEMMA DepsStep ==
  ASSUME DepsInv, [GetDepsNext]_deps_vars
  PROVE  DepsInv'
<1>0. ListTypeOK
  BY DEF DepsInv
<1>1. CASE NextAsked
  BY <1>1, AskKeeps
<1>2. CASE Skip
  BY <1>0, <1>2, SkipIs, SkipKeeps
<1>3. CASE GoInto
  BY <1>0, <1>3, GoIntoIs, GoIntoKeeps
<1>4. CASE Return
  BY <1>0, <1>4, ReturnIs, ReturnKeeps
<1>5. CASE UNCHANGED deps_vars
  <2>1. /\ dic' = dic /\ todo' = todo /\ asked' = asked /\ active' = active
        /\ levels' = levels
    BY <1>5 DEF deps_vars
  <2>2. Reached' = Reached
    BY <2>1 DEF Reached, Stacked
  <2>3. ListTypeOK' /\ WentReached' /\ LevelsDiffer'
    BY <1>0, <2>1, <2>2 DEF DepsInv, ListTypeOK, WentReached, LevelsDiffer
  <2>4. NeedsReached' /\ LevelsFollow'
    BY <2>1, <2>2 DEF DepsInv, NeedsReached, LevelsFollow, Needs
  <2>5. ListReached'
    BY <2>1, <2>2 DEF DepsInv, ListReached, Needs
  <2>6. ListOrdered'
    BY <2>1 DEF DepsInv, ListOrdered, Acyclic, Closed, DepsComeFirst, Needs
  <2>7. ReachedLeast'
    BY <2>1, <2>2 DEF DepsInv, ReachedLeast, Closed, Needs
  <2> QED BY <2>3, <2>4, <2>5, <2>6, <2>7 DEF DepsInv
<1> QED BY <1>1, <1>2, <1>3, <1>4, <1>5 DEF GetDepsNext

LEMMA DepsImplies ==
  ASSUME DepsInv
  PROVE  ListIsClosure
<1>0. ListTypeOK /\ DepsComeFirst
  BY DEF DepsInv, ListOrdered
<1>1. ActiveIsClosure
  <2> SUFFICES ASSUME levels = << >>
               PROVE  /\ asked \subseteq ToSet(active) /\ Closed(ToSet(active))
                      /\ \A S \in SUBSET Known :
                           asked \subseteq S /\ Closed(S) => ToSet(active) \subseteq S
    BY DEF ActiveIsClosure
  <2>1. Reached = ToSet(active)
    BY DEF Reached, Stacked
  <2> QED BY <2>1 DEF DepsInv, ListReached, ReachedLeast, Closed
<1>2. LevelsBounded
  <2>1. PICK n, f : n = Len(levels) /\ f = [k \in 2 .. n |-> levels[k].pkg]
    OBVIOUS
  <2>2. n \in Nat
    BY <1>0, <2>1 DEF ListTypeOK
  <2>3. \A k \in 2 .. n : levels[k].pkg \in Known
    <3>1. \A k \in 2 .. n : k \in 1 .. n
      BY <2>2
    <3> QED BY <1>0, <2>1, <3>1, LevelIs
  <2>4. f \in Injection(2 .. n, Known)
    <3>1. f \in [2 .. n -> Known]
      BY <2>1, <2>3
    <3>2. IsInjective(f)
      BY <2>1 DEF IsInjective, DepsInv, LevelsDiffer
    <3> QED BY <3>1, <3>2 DEF Injection
  <2>5. IsFiniteSet(Known)
    BY DepClosureAssumption
  <2>6. Cardinality(2 .. n) <= Cardinality(Known) /\ Cardinality(Known) \in Nat
    BY <2>4, <2>5, FS_Injection, FS_CardinalityType
  <2>7. Cardinality(2 .. n) = IF 2 > n THEN 0 ELSE n - 2 + 1
    BY <2>2, FS_Interval
  <2> QED BY <2>1, <2>2, <2>6, <2>7 DEF LevelsBounded
<1> QED BY <1>0, <1>1, <1>2 DEF ListIsClosure

\* Whatever packages there are and whatever each needs, with cycles or without, and
\* whatever is asked for: get_deps.sh lists that and all it needs, each once and
\* nothing else, every package after those it needs unless they go round, and its
\* recursion goes no deeper than there are packages.
THEOREM GetDepsIsClosure == GetDeps => []ListIsClosure
<1>1. GetDepsInit => DepsInv
  BY DepsStarts
<1>2. DepsInv /\ [GetDepsNext]_deps_vars => DepsInv'
  BY DepsStep
<1>3. DepsInv => ListIsClosure
  BY DepsImplies
<1> QED BY <1>1, <1>2, <1>3, PTL DEF GetDeps

\* What BuildStages assumes of a list that mk.sh goes through (the third conjunct of
\* BuildStagesAssumption, with Known and Needs for Packages and Deps).
FitsStages(l) ==
  /\ l \in Seq(Known) /\ l # << >>
  /\ \A i, j \in 1 .. Len(l) : l[j] \in Needs(l[i]) => j < i

\* mk.sh:51: the list that get_deps.sh gives it is one that the stages may be run on,
\* as soon as a package was asked for, if the dependencies have no cycle.
THEOREM GetDepsFitsStages ==
  GetDeps => [](levels = << >> /\ asked # {} /\ Acyclic => FitsStages(active))
<1>1. ListIsClosure /\ levels = << >> /\ asked # {} /\ Acyclic => FitsStages(active)
  <2> SUFFICES ASSUME ListIsClosure, levels = << >>, asked # {}, Acyclic
               PROVE  FitsStages(active)
    OBVIOUS
  <2>1. active \in Seq(Known) /\ asked \subseteq ToSet(active) /\ DepsComeFirst
    BY DEF ListIsClosure, ListTypeOK, ActiveIsClosure
  <2>2. active # << >>
    BY <2>1, ElementsIs
  <2> QED BY <2>1, <2>2 DEF FitsStages, DepsComeFirst
<1> QED BY <1>1, GetDepsIsClosure, PTL
=============================================================================
