----------------------------- MODULE DepClosure -----------------------------
(***************************************************************************)
(* buildsys/include/get_deps.sh: the list of packages that mk.sh goes      *)
(* through is made from the packages asked for by a recursion over their   *)
(* dependencies.  Every level of up_active_list runs in a subshell: its    *)
(* lists are copies, and what it prints replaces the caller's active_list, *)
(* so that active is that of the innermost level and the levels are a      *)
(* stack.  un_list keeps the recursion out of cycles; a level tests the    *)
(* one it was given ($4) and passes down one that also has the packages it *)
(* has gone into.                                                          *)
(***************************************************************************)
EXTENDS Naturals, FiniteSets, SequencesExt

CONSTANTS
  Known,     \* the packages in g_dep_dic
  MaxDeps,   \* bound: the length of a dependency list
  MaxAsked   \* bound: how many packages are asked for

ASSUME DepClosureAssumption ==
  IsFiniteSet(Known) /\ MaxDeps \in Nat /\ MaxAsked \in Nat \ {0}

VARIABLES
  dic,    \* g_dep_dic
  todo,   \* the packages asked for that are still to be looked at
  asked,  \* history: those that have been
  active, \* active_list
  levels  \* of up_active_list, the innermost last
deps_vars == <<dic, todo, asked, active, levels>>

ListsOf(set, n) == {s \in UNION {[1..k -> set] : k \in 0..n} : IsInjective(s)}

\* A call of up_active_list: $1, what is left of $2, $4 and its un_list.
Level(p, un) == [pkg |-> p, deps |-> dic[p], un |-> un, went |-> un]

Top == levels[Len(levels)]

\* Whether or not it is there; and a package before what it needs.
WithPackage_Twice(p, list) == Append(list, p)
WithPackage_Before(p, list) == IF p \in ToSet(list) THEN list ELSE <<p>> \o list

\* The end of up_active_list: the package ($1) after what it needs.
WithPackage(p, list) == IF p \in ToSet(list) THEN list ELSE Append(list, p)

GetDepsInit ==
  /\ dic \in [Known -> ListsOf(Known, MaxDeps)]
  /\ todo \in ListsOf(Known, MaxAsked) \ {<<>>}
  /\ asked = {} /\ active = <<>> /\ levels = <<>>

\* get_list_active_list: active_list=`get_pkg_active_list "$i" "$active_list"`
NextAsked ==
  /\ levels = <<>> /\ todo # <<>>
  /\ LET p == Head(todo)
     IN  levels' = <<Level(p, {})>> /\ asked' = asked \cup {p}
  /\ todo' = Tail(todo)
  /\ UNCHANGED <<dic, active>>

\* The tests of the loop: the package is in $4, or in the list.
PassedOver_Listed(i) == i \in ToSet(active)
PassedOver(i) == i \in Top.un \cup ToSet(active)

\* The dependency is passed over.
Skip ==
  /\ levels # <<>> /\ Top.deps # <<>> /\ PassedOver(Head(Top.deps))
  /\ levels' = [levels EXCEPT ![Len(levels)].deps = Tail(@)]
  /\ UNCHANGED <<dic, todo, asked, active>>

\* Mutant: what the dependency needs in turn is not looked at.
GoInto_Itself ==
  /\ levels # <<>> /\ Top.deps # <<>> /\ ~PassedOver(Head(Top.deps))
  /\ LET i == Head(Top.deps)
         now == Top.went \cup {i}
     IN  levels' = Append([levels EXCEPT ![Len(levels)].deps = Tail(@), ![Len(levels)].went = now],
                          [Level(i, now) EXCEPT !.deps = <<>>])
  /\ UNCHANGED <<dic, todo, asked, active>>

\* un_list="$un_list $i" and a level of its own for the dependency.
GoInto ==
  /\ levels # <<>> /\ Top.deps # <<>> /\ ~PassedOver(Head(Top.deps))
  /\ LET i == Head(Top.deps)
         now == Top.went \cup {i}
     IN  levels' = Append([levels EXCEPT ![Len(levels)].deps = Tail(@), ![Len(levels)].went = now],
                          Level(i, now))
  /\ UNCHANGED <<dic, todo, asked, active>>

\* The loop is over: echo $active_list.
Return ==
  /\ levels # <<>> /\ Top.deps = <<>>
  /\ active' = WithPackage(Top.pkg, active) /\ levels' = Front(levels)
  /\ UNCHANGED <<dic, todo, asked>>

GetDepsNext == NextAsked \/ Skip \/ GoInto \/ Return

GetDeps == GetDepsInit /\ [][GetDepsNext]_deps_vars
-----------------------------------------------------------------------------
Needs(p) == ToSet(dic[p])
Closed(S) == \A p \in S : Needs(p) \subseteq S
Acyclic == \A S \in (SUBSET Known) \ {{}} : \E p \in S : Needs(p) \cap S = {}

\* Type invariant: no package is in the list twice, so none is made twice.
ListTypeOK ==
  /\ dic \in [Known -> Seq(Known)] /\ todo \in Seq(Known)
  /\ active \in Seq(Known) /\ IsInjective(active) /\ asked \subseteq Known
  /\ levels \in Seq([pkg : Known, deps : Seq(Known), un : SUBSET Known, went : SUBSET Known])

\* Between two packages asked for the list holds those that have been and all that
\* they need, directly or not, and nothing else, even if the dependencies have a
\* cycle: it is the least closed set (up_active_list forgets nothing).
ActiveIsClosure ==
  levels = <<>> =>
    /\ asked \subseteq ToSet(active) /\ Closed(ToSet(active))
    /\ \A S \in SUBSET Known :
         asked \subseteq S /\ Closed(S) => ToSet(active) \subseteq S

\* A package comes after every package it needs, unless there is a cycle: the
\* order in which mk.sh builds them, and what BuildStages assumes of a list.
DepsComeFirst ==
  Acyclic => \A i, j \in 1..Len(active) : active[j] \in Needs(active[i]) => j < i

\* The levels do not go round a cycle: below the package asked for there is at most
\* one for each package.
LevelsBounded == Len(levels) <= Cardinality(Known) + 1

\* What get_deps.sh prints is the ordered closure of what was asked for.
ListIsClosure == ListTypeOK /\ ActiveIsClosure /\ DepsComeFirst /\ LevelsBounded
=============================================================================
