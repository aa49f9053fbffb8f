----------------------------- MODULE BuildStages -----------------------------
(***************************************************************************)
(* buildsys: mk.sh runs each command on each package of a list; a          *)
(* package's script (include/make_com_script.sh) removes the state files   *)
(* the command names and then goes through the stages, each of which is    *)
(* skipped if its state file exists and followed by a touch of it.         *)
(*                                                                         *)
(* The tools the stages call (wget, tar, patch, configure, make) are       *)
(* external: of a source tree it matters whether it has been unpacked and  *)
(* patched.  fresh is history: the stages whose output was made from what  *)
(* the stages before them have produced last.                              *)
(***************************************************************************)
EXTENDS Naturals, Sequences

CONSTANTS
  Packages,
  Deps,      \* g_dep_dic: the packages each package needs
  Lists,     \* the lists mk.sh may go through (active_pkgs)
  Archives,  \* the packages unpacked from an archive; the others are in ../app
  Patches,   \* the packages that have patch files
  Kinds,     \* the kinds of commands used
  MaxCmds,   \* bound: how many commands -c lists
  Faults     \* "tool": a tool may fail; "kill": the build may be interrupted;
             \* "torn": also in the middle of an rm -rf

Sync == 1
Patch == 2
Config == 3
Build == 4
Install == 5
Stages == Sync..Install

ASSUME BuildStagesAssumption ==
  /\ Deps \in [Packages -> SUBSET Packages]
  /\ Patches \subseteq Archives /\ Archives \subseteq Packages
  /\ \A l \in Lists :
       /\ l \in Seq(Packages) /\ l # <<>>
       /\ \A i, j \in 1..Len(l) : l[j] \in Deps[l[i]] => j < i
  /\ Kinds \subseteq {"default", "clean", "remake", "redo", "only"}
  /\ MaxCmds \in Nat \ {0}
  /\ Faults \subseteq {"tool", "kill", "torn"}

VARIABLES
  cmds, list,  \* the arguments of mk.sh: user_cmds, active_pkgs
  ci, pos,     \* the command and the package it is at
  pc,          \* "idle" (not running, or killed), "package" (a script starts),
               \* "make" (before a stage), "touch" (after it), "completed"
  st,          \* the stage of the running script
  marks,       \* the state files of each package
  tree,        \* $dst_path: "absent", "dir" (nothing usable in it), "source"
  patched,     \* "no", "some" or "all" of the patch files applied
  fresh
args == <<cmds, list>>
disk == <<marks, tree, patched, fresh>>
vars == <<cmds, list, ci, pos, pc, st, marks, tree, patched, fresh>>

\* -c X: redo is reX (stage X and what follows), only is the plain X; the
\* other kinds name no stage.
Commands ==
  {c \in [kind : Kinds, stage : Stages] : c.kind \in {"redo", "only"} \/ c.stage = Sync}

Pkg == list[pos]
Cmd == cmds[ci]

Init ==
  /\ cmds = <<>> /\ list = <<>> /\ ci = 1 /\ pos = 1 /\ pc = "idle" /\ st = Sync
  /\ marks = [p \in Packages |-> {}] /\ tree = [p \in Packages |-> "absent"]
  /\ patched = [p \in Packages |-> "no"] /\ fresh = [p \in Packages |-> {}]

\* mk.sh -c "c..." l...
Invoke ==
  /\ pc \in {"idle", "completed"}
  /\ \E n \in 1..MaxCmds : cmds' \in [1..n -> Commands]
  /\ list' \in Lists
  /\ ci' = 1 /\ pos' = 1 /\ pc' = "package"
  /\ UNCHANGED <<st, disk>>

\* The outer loop: the next command, from the first package, or the end.
NextCommand ==
  IF ci < Len(cmds)
  THEN ci' = ci + 1 /\ pos' = 1 /\ pc' = "package"
  ELSE pc' = "completed" /\ UNCHANGED <<ci, pos>>

\* One package too many.
ScriptEnds_OneTooFar(ok) ==
  IF ok /\ pos <= Len(list)
  THEN pos' = pos + 1 /\ pc' = "package" /\ UNCHANGED ci
  ELSE NextCommand

\* What the inner loop does with the status of a script: 0 goes on to the
\* next package, anything else breaks it.
ScriptEnds(ok) ==
  IF ok /\ pos < Len(list)
  THEN pos' = pos + 1 /\ pc' = "package" /\ UNCHANGED ci
  ELSE NextCommand

SetTree(p, t, how) ==
  tree' = [tree EXCEPT ![p] = t] /\ patched' = [patched EXCEPT ![p] = how]

\* rm -rf $dst_path
RemoveTree(p) ==
  /\ SetTree(p, "absent", "no")
  /\ marks' = [marks EXCEPT ![p] = {}]
  /\ fresh' = [fresh EXCEPT ![p] = {}]

\* reX removes its own state file only.
Removed_OneFile(c) == IF c.kind \in {"redo", "only"} THEN {c.stage} ELSE {}

\* The state files that pkg_clean_for removes: reX takes X and the later ones.
Removed(c) ==
  CASE c.kind = "redo" -> c.stage..Install
    [] c.kind = "only" -> {c.stage}
    [] OTHER -> {}

CleanPackage ==
  /\ pc = "package" /\ Cmd.kind = "clean"
  /\ RemoveTree(Pkg) /\ ScriptEnds(TRUE)
  /\ UNCHANGED <<args, st>>

\* remake without the rm -rf of the tree.
RemakePackage_KeepTree ==
  /\ pc = "package" /\ Cmd.kind = "remake"
  /\ marks' = [marks EXCEPT ![Pkg] = {}]
  /\ pc' = "make" /\ st' = Sync
  /\ UNCHANGED <<args, ci, pos, tree, patched, fresh>>

RemakePackage ==
  /\ pc = "package" /\ Cmd.kind = "remake"
  /\ RemoveTree(Pkg)
  /\ pc' = "make" /\ st' = Sync
  /\ UNCHANGED <<args, ci, pos>>

MakePackage ==
  /\ pc = "package" /\ Cmd.kind \in {"default", "redo", "only"}
  /\ marks' = [marks EXCEPT ![Pkg] = @ \ Removed(Cmd)]
  /\ pc' = "make" /\ st' = Sync
  /\ UNCHANGED <<args, ci, pos, tree, patched, fresh>>

\* Whether stage s of package p can succeed: an archive unpacked on its own
\* tree is more than one entry to mv, and a patch is refused the second time.
CanSucceed(p, s) ==
  CASE s = Sync  -> p \in Archives => tree[p] # "source"
    [] s = Patch -> p \in Patches => tree[p] = "source" /\ patched[p] = "no"
    [] OTHER     -> tree[p] = "source"

\* A stage without work: an app's directory is there or made, no patch files.
Idle(p, s) == (s = Sync /\ p \notin Archives) \/ (s = Patch /\ p \notin Patches)

\* Stage s does its work: what later stages made from it is out of date.
StageDone(p, s) ==
  /\ tree' = [tree EXCEPT ![p] = IF s = Sync THEN "source" ELSE @]
  /\ patched' = [patched EXCEPT ![p] = IF s = Patch /\ p \in Patches THEN "all" ELSE @]
  /\ fresh' = [fresh EXCEPT ![p] = (IF Idle(p, s) THEN @ ELSE @ \ (s..Install)) \cup {s}]

\* Stage s stops on the way, by a failure or a kill.
StageBroken(p, s) ==
  /\ CanSucceed(p, s) /\ ~Idle(p, s)
  /\ tree' = [tree EXCEPT ![p] = IF s = Sync THEN "dir" ELSE @]
  /\ \E how \in {"no", "some"} :
       patched' = [patched EXCEPT ![p] = IF s = Patch THEN how ELSE @]
  /\ fresh' = [fresh EXCEPT ![p] = @ \ (s..Install)]

\* A stage that cannot succeed leaves the tree as it is.
StageFails(p, s) ==
  \/ "tool" \in Faults /\ StageBroken(p, s)
  \/ ~CanSucceed(p, s) /\ UNCHANGED <<tree, patched, fresh>>

\* The last stage passed: the script returns 0; otherwise on to the next.
StageEnds ==
  IF st = Install
  THEN ScriptEnds(TRUE) /\ UNCHANGED st
  ELSE st' = st + 1 /\ pc' = "make" /\ UNCHANGED <<ci, pos>>

SkipStage ==
  /\ pc = "make" /\ st \in marks[Pkg]
  /\ StageEnds
  /\ UNCHANGED <<args, disk>>

\* The stage does not look for its state file.
RunStage_EvenIfMarked ==
  /\ pc = "make" /\ CanSucceed(Pkg, st)
  /\ StageDone(Pkg, st)
  /\ pc' = "touch"
  /\ UNCHANGED <<args, ci, pos, st, marks>>

RunStage ==
  /\ pc = "make" /\ st \notin marks[Pkg] /\ CanSucceed(Pkg, st)
  /\ StageDone(Pkg, st)
  /\ pc' = "touch"
  /\ UNCHANGED <<args, ci, pos, st, marks>>

\* The next package in spite of the failure.
FailStage_GoesOn ==
  /\ pc = "make" /\ st \notin marks[Pkg]
  /\ StageFails(Pkg, st)
  /\ ScriptEnds(TRUE)
  /\ UNCHANGED <<args, st, marks>>

\* The stage is touched in spite of the failure.
FailStage_Ignored ==
  /\ pc = "make" /\ st \notin marks[Pkg]
  /\ StageFails(Pkg, st)
  /\ pc' = "touch"
  /\ UNCHANGED <<args, ci, pos, st, marks>>

\* && : a stage that fails ends the script with its status.
FailStage ==
  /\ pc = "make" /\ st \notin marks[Pkg]
  /\ StageFails(Pkg, st)
  /\ ScriptEnds(FALSE)
  /\ UNCHANGED <<args, st, marks>>

TouchMark ==
  /\ pc = "touch"
  /\ marks' = [marks EXCEPT ![Pkg] = @ \cup {st}]
  /\ StageEnds
  /\ UNCHANGED <<args, tree, patched, fresh>>

\* Interrupted between two steps, or within a stage.
Kill ==
  /\ "kill" \in Faults /\ pc \in {"package", "make", "touch"}
  /\ pc' = "idle"
  /\ \/ UNCHANGED disk
     \/ pc = "make" /\ st \notin marks[Pkg] /\ StageBroken(Pkg, st) /\ UNCHANGED marks
  /\ UNCHANGED <<args, ci, pos, st>>

\* Interrupted within an rm -rf: of the named files, the first ones are gone;
\* of the tree, any part.
KillTorn ==
  /\ "torn" \in Faults /\ pc = "package"
  /\ pc' = "idle"
  /\ \/ \E s \in Removed(Cmd) :
          /\ marks' = [marks EXCEPT ![Pkg] = @ \ {t \in Removed(Cmd) : t <= s}]
          /\ UNCHANGED <<tree, patched, fresh>>
     \/ /\ Cmd.kind \in {"clean", "remake"} /\ tree[Pkg] # "absent"
        /\ \E kept \in SUBSET marks[Pkg] : marks' = [marks EXCEPT ![Pkg] = kept]
        /\ SetTree(Pkg, "dir", "no")
        /\ fresh' = [fresh EXCEPT ![Pkg] = {}]
  /\ UNCHANGED <<args, ci, pos, st>>

Next ==
  \/ Invoke \/ CleanPackage \/ RemakePackage \/ MakePackage
  \/ SkipStage \/ RunStage \/ FailStage \/ TouchMark
  \/ Kill \/ KillTorn

Spec == Init /\ [][Next]_vars
-----------------------------------------------------------------------------
Running == pc \in {"package", "make", "touch"}
Complete(p) == marks[p] = Stages

\* Type invariant: the positions point into the arguments of the script.
TypeOK ==
  /\ cmds \in Seq(Commands) /\ list \in Seq(Packages)
  /\ ci \in Nat \ {0} /\ pos \in Nat \ {0}
  /\ Running => list \in Lists /\ ci <= Len(cmds) /\ pos <= Len(list)
  /\ pc \in {"idle", "package", "make", "touch", "completed"} /\ st \in Stages
  /\ marks \in [Packages -> SUBSET Stages]
  /\ tree \in [Packages -> {"absent", "dir", "source"}]
  /\ patched \in [Packages -> {"no", "some", "all"}]
  /\ fresh \in [Packages -> SUBSET Stages]

\* A state file stands for output that is up to date: whatever failed or was
\* interrupted, no stage is skipped whose result has been outdated by an
\* earlier stage run again, or that was never finished (def_ex_make).
MarksAreCurrent == \A p \in Packages : marks[p] \subseteq fresh[p]

\* While a package is being made, the packages it needs that mk.sh was
\* asked for have been made completely (the order of get_deps.sh and the
\* break of mk.sh:77).
DepsBuiltFirst ==
  pc \in {"make", "touch"} =>
    \A j \in 1..Len(list) : list[j] \in Deps[Pkg] => Complete(list[j])

\* A package is configured, built and installed only from an unpacked tree
\* with every patch file applied exactly once, and from the current output
\* of the stages before (def_ex_make, pkg_clean_for).
BuildsOnCurrent ==
  pc = "make" /\ st > Patch /\ st \notin marks[Pkg] =>
    /\ tree[Pkg] = "source"
    /\ Pkg \in Patches => patched[Pkg] = "all"
    /\ 1..(st - 1) \subseteq fresh[Pkg]

\* A package that is complete is left alone by a build without a command,
\* killed or not: its tree is not unpacked, patched or built again.
DefaultKeepsDone ==
  [][\A p \in Packages :
       Running /\ Cmd.kind = "default" /\ Complete(p)
         => UNCHANGED <<marks[p], tree[p], patched[p], fresh[p]>>]_vars

\* Without failing tools, remake brings a package into order again, whatever
\* an interruption has left: a half removed tree, a half patched one, state
\* files with gaps (make_com_script.sh:229).
RemakeRepairs ==
  pc = "completed" /\ cmds[Len(cmds)].kind = "remake" =>
    \A j \in 1..Len(list) :
      Complete(list[j]) /\ tree[list[j]] = "source" /\ fresh[list[j]] = Stages

\* The two loops of mk.sh keep to their lists, and take what a package needs
\* before the package.
LoopInOrder == TypeOK /\ DepsBuiltFirst

\* State files and the stages that go by them rest on current output.
OutputIsCurrent == MarksAreCurrent /\ BuildsOnCurrent
=============================================================================
