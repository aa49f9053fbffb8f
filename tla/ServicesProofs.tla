--------------------------- MODULE ServicesProofs ---------------------------
(***************************************************************************)
(* What is proved of the programs that serve others, for every value of    *)
(* the constants.                                                          *)
(*                                                                         *)
(* AppManager: the exit command leaves nothing of the table running, a     *)
(* stopped task stays stopped, and no program is started twice by          *)
(* accident.  All three rest on the table's mutex, which the model has as  *)
(* the one job that is under way: what the job has done so far (Leaving,   *)
(* Drained) is not undone by the other thread, and what the programs do in *)
(* between never brings one back (ProgramFacts).                           *)
(*                                                                         *)
(* SockServ closes only what is its own as long as Stop() has not met a    *)
(* handler that closes its client itself, and the table of the servers of  *)
(* ut_socket holds just the connections they watch.                        *)
(*                                                                         *)
(* Each program has its invariant and its part of this module; the last    *)
(* part joins them.                                                        *)
(***************************************************************************)
EXTENDS MCServices, FiniteSetTheorems, SequenceTheorems, WellFoundedInduction,
        NaturalsInduction, TLAPS

-----------------------------------------------------------------------------
(* Sequences                                                                *)

\* A set of naturals has a smallest one.
LEMMA HasMin ==
  ASSUME NEW T \in SUBSET Nat, T # {}
  PROVE  Min(T) \in T /\ \A y \in T : Min(T) <= y
<1>1. IsWellFoundedOn(OpToRel(<,Nat), Nat)
  BY NatLessThanWellFounded
<1>2. PICK x \in T : \A y \in T : ~(<<y, x>> \in OpToRel(<,Nat))
  BY <1>1, WFMin
<1>3. \A y \in T : ~(y < x)
  BY <1>2 DEF OpToRel
<1>4. \A y \in T : x <= y
  BY <1>3
<1>5. QED
  BY <1>4 DEF Min

\* RemoveAt drops one element and moves those behind it up.
LEMMA RemoveFacts ==
  ASSUME NEW T, NEW s \in Seq(T), NEW i \in DOMAIN s
  PROVE  /\ RemoveAt(s, i) \in Seq(T) /\ Len(s) \in Nat
         /\ Len(RemoveAt(s, i)) = Len(s) - 1
         /\ \A j \in 1 .. Len(s) - 1 :
               RemoveAt(s, i)[j] = s[IF j < i THEN j ELSE j + 1]
<1> DEFINE a == SubSeq(s, 1, i - 1)
           b == SubSeq(s, i + 1, Len(s))
<1>1. i \in 1 .. Len(s) /\ Len(s) \in Nat
  OBVIOUS
<1>2. a \in Seq(T) /\ Len(a) = i - 1 /\ \A j \in 1 .. i - 1 : a[j] = s[j]
  BY <1>1
<1>3. b \in Seq(T) /\ Len(b) = Len(s) - i /\ \A j \in 1 .. Len(s) - i : b[j] = s[i + j]
  BY <1>1
<1>4. RemoveAt(s, i) = a \o b
  BY DEF RemoveAt
<1> HIDE DEF a, b
<1>5. /\ a \o b \in Seq(T) /\ Len(a \o b) = Len(s) - 1
      /\ \A j \in 1 .. Len(s) - 1 :
            (a \o b)[j] = IF j <= i - 1 THEN a[j] ELSE b[j - (i - 1)]
  BY <1>1, <1>2, <1>3, ConcatProperties
<1>6. \A j \in 1 .. Len(s) - 1 : (a \o b)[j] = s[IF j < i THEN j ELSE j + 1]
  <2> SUFFICES ASSUME NEW j \in 1 .. Len(s) - 1
               PROVE  (a \o b)[j] = s[IF j < i THEN j ELSE j + 1]
    OBVIOUS
  <2>1. CASE j < i
    BY <1>1, <1>2, <1>5, <2>1
  <2>2. CASE ~(j < i)
    <3>1. (a \o b)[j] = b[j - (i - 1)]
      BY <1>1, <1>5, <2>2
    <3>2. j - (i - 1) \in 1 .. Len(s) - i /\ i + (j - (i - 1)) = j + 1
      BY <1>1, <2>2
    <3>3. QED
      BY <1>3, <2>2, <3>1, <3>2
  <2>3. QED
    BY <2>1, <2>2
<1>7. QED
  BY <1>1, <1>4, <1>5, <1>6

\* The file makes a table of tasks that have not been started.
LEMMA ConfTasks ==
  /\ LoadConf \in Seq(Task)
  /\ \A k \in DOMAIN LoadConf : LoadConf[k].st = "min"
<1> DEFINE bad == {k \in DOMAIN Conf : Conf[k] = BadLine}
           n == IF bad = {} THEN Len(Conf) ELSE Min(bad) - 1
<1>1. Conf \in Seq(Apps \cup {BadLine}) /\ Len(Conf) \in Nat /\ DOMAIN Conf = 1 .. Len(Conf)
  BY ConfAssumption
<1>2. n \in 0 .. Len(Conf)
  <2>1. CASE bad = {}
    BY <1>1, <2>1
  <2>2. CASE bad # {}
    <3>1. bad \in SUBSET Nat
      BY <1>1
    <3>2. Min(bad) \in bad
      BY <3>1, <2>2, HasMin
    <3>3. QED
      BY <1>1, <3>2, <2>2
  <2>3. QED
    BY <2>1, <2>2
<1>3. \A k \in 1 .. n : Conf[k] \in Apps
  <2> SUFFICES ASSUME NEW k \in 1 .. n, Conf[k] = BadLine
               PROVE  FALSE
    BY <1>1, <1>2
  <2>1. k \in bad
    BY <1>1, <1>2
  <2>2. bad \in SUBSET Nat /\ bad # {}
    BY <1>1, <2>1
  <2>3. Min(bad) \in bad /\ \A y \in bad : Min(bad) <= y
    BY <2>2, HasMin
  <2>4. Min(bad) \in Nat /\ k \in Nat
    BY <1>1, <2>1, <2>2, <2>3
  <2>5. n = Min(bad) - 1 /\ Min(bad) <= k
    BY <2>1, <2>2, <2>3
  <2>6. k <= n
    BY <1>2
  <2>7. QED
    BY <2>4, <2>5, <2>6
<1>4. LoadConf = [k \in 1 .. n |-> NewTask(Conf[k])]
  BY DEF LoadConf
<1> HIDE DEF n, bad
<1>5. \A k \in 1 .. n : NewTask(Conf[k]) \in Task /\ NewTask(Conf[k]).st = "min"
  BY <1>3 DEF NewTask, Task, TaskStates
<1>6. n \in Nat
  BY <1>1, <1>2
<1>7. QED
  BY <1>4, <1>5, <1>6

-----------------------------------------------------------------------------
(* The steps of a job                                                       *)

Jobs == [todo: Seq(Step), at: {"begin", "poll", "drain"}, chain: BOOLEAN, exits: BOOLEAN]
Procs == [Apps -> [fresh: 0 .. MaxFresh, up: BOOLEAN, doomed: BOOLEAN]]

\* A manager that is not there has no job.
Idle == /\ Free => job = NoJob
        /\ life \in {"exited", "dead"} => Free

Typed == TypeOK /\ Idle

\* What Job makes: no step, no job.
LEMMA JobFacts ==
  ASSUME NEW t \in Seq(Step), NEW c \in BOOLEAN, NEW e \in BOOLEAN
  PROVE  /\ Job(t, c, e) \in Jobs
         /\ Job(t, c, e).todo = t /\ Job(t, c, e).at = "begin"
         /\ t = <<>> => Job(t, c, e) = NoJob
         /\ t # <<>> => Job(t, c, e).chain = c /\ Job(t, c, e).exits = e
         /\ Job(t, c, e).exits => e
<1>1. CASE t = <<>>
  <2>1. NoJob \in Jobs
    BY DEF NoJob, Jobs
  <2>2. QED
    BY <1>1, <2>1 DEF Job, NoJob
<1>2. CASE t # <<>>
  BY <1>2 DEF Job, Jobs
<1>3. QED
  BY <1>1, <1>2

\* One step for every task.
LEMMA ForAllFacts ==
  ASSUME NEW tbl \in Seq(Task), NEW do \in {"start", "stop", "monitor"}
  PROVE  /\ ForAll(tbl, do) \in Seq(Step) /\ Len(ForAll(tbl, do)) = Len(tbl)
         /\ DOMAIN ForAll(tbl, do) = DOMAIN tbl
         /\ \A k \in DOMAIN tbl : ForAll(tbl, do)[k] = [do |-> do, i |-> k]
<1>1. DOMAIN tbl = 1 .. Len(tbl) /\ Len(tbl) \in Nat
  OBVIOUS
<1>2. \A k \in 1 .. Len(tbl) : [do |-> do, i |-> k] \in Step
  BY <1>1 DEF Step
<1>3. QED
  BY <1>1, <1>2 DEF ForAll

\* The step that is being done, and the rest.
LEMMA NowFacts ==
  ASSUME Typed, ~Free
  PROVE  /\ Now \in Step /\ Now = job.todo[1] /\ Now.i \in DOMAIN tasks
         /\ App \in Apps /\ App = tasks[Now.i].app
         /\ Len(job.todo) \in Nat \ {0}
         /\ Tail(job.todo) \in Seq(Step) /\ Len(Tail(job.todo)) = Len(job.todo) - 1
         /\ \A k \in 1 .. Len(job.todo) - 1 : Tail(job.todo)[k] = job.todo[k + 1]
<1>1. job.todo \in Seq(Step) /\ job.todo # <<>> /\ tasks \in Seq(Task)
  BY DEF Typed, TypeOK, Free
<1>2. Len(job.todo) \in Nat \ {0} /\ DOMAIN job.todo = 1 .. Len(job.todo)
  BY <1>1, EmptySeq
<1>3. Now = job.todo[1] /\ Now \in Step
  BY <1>1, <1>2 DEF Now
<1>4. Now.i \in DOMAIN tasks
  BY <1>2, <1>3 DEF Typed, TypeOK
<1>5. tasks[Now.i] \in Task
  BY <1>1, <1>4
<1>6. App \in Apps
  BY <1>5 DEF App, Task
<1>7. QED
  BY <1>1, <1>2, <1>3, <1>4, <1>6, HeadTailProperties DEF App

\* Only the state of the task changes.
LEMMA IsFacts ==
  ASSUME Typed, ~Free, NEW st \in TaskStates, Is(st)
  PROVE  /\ tasks' \in Seq(Task) /\ DOMAIN tasks' = DOMAIN tasks /\ Len(tasks') = Len(tasks)
         /\ tasks'[Now.i] = [app |-> App, st |-> st]
         /\ \A k \in DOMAIN tasks : k # Now.i => tasks'[k] = tasks[k]
<1>1. tasks \in Seq(Task) /\ Now.i \in DOMAIN tasks /\ App = tasks[Now.i].app
  BY NowFacts DEF Typed, TypeOK
<1>2. tasks[Now.i] \in Task
  BY <1>1
<1>3. [tasks[Now.i] EXCEPT !.st = st] = [app |-> App, st |-> st]
  BY <1>1, <1>2 DEF Task
<1>4. [app |-> App, st |-> st] \in Task
  BY <1>1, <1>2 DEF Task
<1>5. tasks' = [tasks EXCEPT ![Now.i] = [app |-> App, st |-> st]]
  BY <1>3 DEF Is
<1>6. QED
  BY <1>1, <1>4, <1>5

\* What comes after a step.
LEMMA EndsFacts ==
  ASSUME Typed, ~Free, NEW ok \in BOOLEAN, Ends(ok)
  PROVE  /\ job' \in Jobs /\ job'.at = "begin"
         /\ job'.todo \in {<<>>, Tail(job.todo)}
         /\ ~job.chain => job'.todo = Tail(job.todo)
         /\ job'.todo = <<>> => job' = NoJob
         /\ job'.todo # <<>> => job'.exits = job.exits /\ job'.chain = job.chain
         /\ job'.exits => job.exits
         /\ life' = IF job.exits /\ job'.todo = <<>> THEN "exiting" ELSE life
<1> DEFINE rest == IF job.chain /\ ~ok THEN <<>> ELSE Tail(job.todo)
<1>1. rest \in Seq(Step)
  BY NowFacts
<1>2. job.chain \in BOOLEAN /\ job.exits \in BOOLEAN
  BY DEF Typed, TypeOK
<1>3. /\ job' = Job(rest, job.chain, job.exits)
      /\ life' = IF job.exits /\ rest = <<>> THEN "exiting" ELSE life
  BY DEF Ends
<1>4. rest \in {<<>>, Tail(job.todo)} /\ (~job.chain => rest = Tail(job.todo))
  OBVIOUS
<1> HIDE DEF rest
<1>5. /\ job' \in Jobs /\ job'.todo = rest /\ job'.at = "begin"
      /\ rest = <<>> => job' = NoJob
      /\ rest # <<>> => job'.chain = job.chain /\ job'.exits = job.exits
      /\ job'.exits => job.exits
  BY <1>1, <1>2, <1>3, JobFacts
<1>6. QED
  BY <1>3, <1>4, <1>5

\* The types after a step that ends.
LEMMA EndsTyped ==
  ASSUME Typed, ~Free, NEW ok \in BOOLEAN, Ends(ok), Kept,
         tasks' \in Seq(Task), DOMAIN tasks' = DOMAIN tasks,
         proc' \in Procs, astray' \subseteq Apps
  PROVE  Typed'
<1>1. /\ job' \in Jobs /\ job'.todo \in {<<>>, Tail(job.todo)}
      /\ job'.todo = <<>> => job' = NoJob
      /\ life' = IF job.exits /\ job'.todo = <<>> THEN "exiting" ELSE life
  BY EndsFacts
<1>2. \A k \in DOMAIN job'.todo : job'.todo[k].i \in DOMAIN tasks
  <2>1. CASE job'.todo = <<>>
    BY <2>1
  <2>2. CASE job'.todo = Tail(job.todo)
    <3>1. \A k \in DOMAIN job.todo : job.todo[k].i \in DOMAIN tasks
      BY DEF Typed, TypeOK
    <3>2. job.todo \in Seq(Step)
      BY DEF Typed, TypeOK
    <3>3. \A k \in DOMAIN job'.todo : k + 1 \in DOMAIN job.todo /\ job'.todo[k] = job.todo[k + 1]
      BY <2>2, <3>2, NowFacts
    <3>4. QED
      BY <3>1, <3>3
  <2>3. QED
    BY <1>1, <2>1, <2>2
<1>3. life \in {"boot", "run", "exiting"}
  BY DEF Typed, TypeOK, Idle
<1>4. life' \in {"boot", "run", "exiting"}
  BY <1>1, <1>3
<1>5. Idle'
  BY <1>1, <1>4 DEF Idle, Free
<1>6. cmds' \in 0 .. MaxCmds /\ faults' \in 0 .. MaxFaults /\ twins' \subseteq Apps
  BY DEF Typed, TypeOK, Kept
<1>7. QED
  BY <1>1, <1>2, <1>4, <1>5, <1>6 DEF Typed, TypeOK, Jobs, Procs

\* And after one that only moves the job on.
LEMMA StaysTyped ==
  ASSUME Typed, ~Free, Kept, UNCHANGED <<tasks, life>>, NEW place \in {"poll", "drain"},
         job' = [job EXCEPT !.at = place],
         proc' \in Procs, astray' \subseteq Apps
  PROVE  Typed'
<1>1. job \in Jobs
  BY DEF Typed, TypeOK, Jobs
<1>2. job' \in Jobs /\ job'.todo = job.todo
  BY <1>1 DEF Jobs
<1>3. ~Free'
  BY <1>2 DEF Free
<1>4. life \in {"boot", "run", "exiting"}
  BY DEF Typed, TypeOK, Idle
<1>5. Idle'
  BY <1>3, <1>4 DEF Idle
<1>6. cmds' \in 0 .. MaxCmds /\ faults' \in 0 .. MaxFaults /\ twins' \subseteq Apps
  BY DEF Typed, TypeOK, Kept
<1>7. QED
  BY <1>2, <1>4, <1>5, <1>6 DEF Typed, TypeOK, Jobs, Procs

\* A job with one step for every task of a table.
LEMMA TableJob ==
  ASSUME NEW tbl \in Seq(Task), NEW do \in {"start", "stop", "monitor"}, NEW chain \in BOOLEAN
  PROVE  LET j == Job(ForAll(tbl, do), chain, FALSE)
         IN  /\ j \in Jobs /\ j.at = "begin" /\ ~j.exits
             /\ \A k \in DOMAIN j.todo : /\ j.todo[k].do = do /\ j.todo[k].i = k
                                        /\ k \in DOMAIN tbl
             /\ j.todo = <<>> => j = NoJob
<1> DEFINE j == Job(ForAll(tbl, do), chain, FALSE)
<1>1. /\ ForAll(tbl, do) \in Seq(Step) /\ DOMAIN ForAll(tbl, do) = DOMAIN tbl
      /\ \A k \in DOMAIN tbl : ForAll(tbl, do)[k] = [do |-> do, i |-> k]
  BY ForAllFacts
<1>2. /\ j \in Jobs /\ j.todo = ForAll(tbl, do) /\ j.at = "begin"
      /\ j.todo = <<>> => j = NoJob
      /\ j.exits => FALSE
  BY <1>1, JobFacts
<1> HIDE DEF j
<1>3. \A k \in DOMAIN j.todo : j.todo[k].do = do /\ j.todo[k].i = k /\ k \in DOMAIN tbl
  BY <1>1, <1>2
<1>4. QED
  BY <1>2, <1>3 DEF j

\* Every step of a job keeps the types.
LEMMA JobStepTyped ==
  ASSUME Typed, JobStep
  PROVE  Typed'
<1>0. ~Free
  BY DEF JobStep, StartFinds, StartFails, Launch, PollSees, PollGivesUp, StopSignals, StopSees,
         StopForces, MonitorSkips, MonitorFindsUp, MonitorFindsDown, Does
<1>1. /\ App \in Apps /\ proc \in Procs /\ astray \subseteq Apps /\ tasks \in Seq(Task)
      /\ proc[App] \in [fresh: 0 .. MaxFresh, up: BOOLEAN, doomed: BOOLEAN]
  BY <1>0, NowFacts DEF Typed, TypeOK, Procs
<1> DEFINE Done(st) == Is(st) /\ proc' \in Procs /\ astray' \subseteq Apps /\ Kept
<1>2. ASSUME NEW st \in TaskStates, NEW ok \in BOOLEAN, Done(st), Ends(ok)
      PROVE  Typed'
  <2>1. tasks' \in Seq(Task) /\ DOMAIN tasks' = DOMAIN tasks
    BY <1>0, <1>2, IsFacts
  <2>2. QED
    BY <1>0, <1>2, <2>1, EndsTyped
<1>3. CASE StartFinds
  BY <1>1, <1>2, <1>3 DEF StartFinds, TaskStates
<1>4. CASE StartFails
  BY <1>1, <1>2, <1>4 DEF StartFails, TaskStates
<1>5. CASE Launch
  <2>1. proc[App].fresh + 1 \in 0 .. MaxFresh
    BY <1>1, <1>5, BoundAssumption DEF Launch
  <2>2. proc' \in Procs
    BY <1>1, <1>5, <2>1 DEF Launch, Procs
  <2>3. QED
    BY <1>0, <1>1, <1>5, <2>2, StaysTyped DEF Launch
<1>6. CASE PollSees
  BY <1>1, <1>2, <1>6 DEF PollSees, TaskStates
<1>7. CASE PollGivesUp
  <2>1. astray' \subseteq Apps
    BY <1>1, <1>7 DEF PollGivesUp
  <2>2. QED
    BY <1>1, <1>2, <1>7, <2>1 DEF PollGivesUp, TaskStates
<1>8. CASE StopSignals
  <2>1. PICK obeys \in BOOLEAN :
           proc' = [proc EXCEPT ![App].fresh = 0,
                                ![App].doomed = @ \/ (obeys /\ proc[App].up)]
    BY <1>8 DEF StopSignals
  <2>2. (proc[App].doomed \/ (obeys /\ proc[App].up)) \in BOOLEAN /\ 0 \in 0 .. MaxFresh
    BY BoundAssumption
  <2>3. proc' \in Procs
    BY <1>1, <2>1, <2>2 DEF Procs
  <2>4. astray' \subseteq Apps
    BY <1>1, <1>8 DEF StopSignals
  <2>5. job' = [job EXCEPT !.at = "drain"] /\ UNCHANGED <<tasks, life>> /\ Kept
    BY <1>8 DEF StopSignals
  <2>6. QED
    BY <1>0, <2>3, <2>4, <2>5, StaysTyped, Zenon
<1>9. CASE StopSees
  BY <1>1, <1>2, <1>9 DEF StopSees, TaskStates
<1>10. CASE StopForces
  <2>1. proc' \in Procs
    <3>1. proc[App].up \in BOOLEAN /\ 0 \in 0 .. MaxFresh
      BY <1>1, BoundAssumption
    <3>2. proc' = [proc EXCEPT ![App].fresh = 0, ![App].doomed = proc[App].up]
      BY <1>10 DEF StopForces
    <3>3. QED
      BY <1>1, <3>1, <3>2 DEF Procs
  <2>2. astray' \subseteq Apps
    BY <1>1, <1>10 DEF StopForces
  <2>3. QED
    BY <1>2, <1>10, <2>1, <2>2 DEF StopForces, TaskStates
<1>11. CASE MonitorSkips
  BY <1>0, <1>1, <1>11, EndsTyped DEF MonitorSkips
<1>12. CASE MonitorFindsUp
  BY <1>1, <1>2, <1>12 DEF MonitorFindsUp, TaskStates
<1>13. CASE MonitorFindsDown
  <2>1. tasks' \in Seq(Task) /\ DOMAIN tasks' = DOMAIN tasks
    BY <1>0, <1>13, IsFacts DEF MonitorFindsDown, TaskStates
  <2> DEFINE s == [Now EXCEPT !.do = "start"]
  <2>2. s \in Step /\ s.i = Now.i
    BY <1>0, NowFacts DEF Step
  <2> HIDE DEF s
  <2>3. /\ <<s>> \o Tail(job.todo) \in Seq(Step) /\ Len(<<s>> \o Tail(job.todo)) = Len(job.todo)
        /\ (<<s>> \o Tail(job.todo))[1] = s
        /\ \A k \in 2 .. Len(job.todo) : (<<s>> \o Tail(job.todo))[k] = job.todo[k]
    <3>1. /\ Tail(job.todo) \in Seq(Step) /\ Len(Tail(job.todo)) = Len(job.todo) - 1
          /\ Len(job.todo) \in Nat \ {0}
          /\ \A k \in 1 .. Len(job.todo) - 1 : Tail(job.todo)[k] = job.todo[k + 1]
      BY <1>0, NowFacts
    <3>2. <<s>> \in Seq(Step) /\ Len(<<s>>) = 1 /\ <<s>>[1] = s
      BY <2>2
    <3>3. QED
      BY <3>1, <3>2, ConcatProperties
  <2>4. job \in Jobs
    BY DEF Typed, TypeOK, Jobs
  <2>5. job' = [job EXCEPT !.todo = <<s>> \o Tail(job.todo)]
    BY <1>13 DEF MonitorFindsDown, s
  <2>6. job' \in Jobs /\ job'.todo = <<s>> \o Tail(job.todo)
    BY <2>3, <2>4, <2>5 DEF Jobs
  <2>7. \A k \in DOMAIN job'.todo : job'.todo[k].i \in DOMAIN tasks'
    <3>1. /\ Len(job.todo) \in Nat \ {0} /\ job.todo \in Seq(Step) /\ Now.i \in DOMAIN tasks
          /\ \A k \in 1 .. Len(job.todo) : job.todo[k].i \in DOMAIN tasks
      BY <1>0, NowFacts DEF Typed, TypeOK
    <3>2. DOMAIN job'.todo = 1 .. Len(job.todo)
      BY <2>3, <2>6
    <3>3. \A k \in 1 .. Len(job.todo) : k = 1 \/ k \in 2 .. Len(job.todo)
      BY <3>1
    <3>4. QED
      BY <2>1, <2>2, <2>3, <2>6, <3>1, <3>2, <3>3
  <2>8. ~Free'
    BY <1>0, <2>3, <2>6, NowFacts DEF Free
  <2>9. life \in {"boot", "run", "exiting"} /\ life' = life
    BY <1>0, <1>13 DEF Typed, TypeOK, Idle, MonitorFindsDown
  <2>10. UNCHANGED <<proc, astray>> /\ Kept
    BY <1>13 DEF MonitorFindsDown
  <2>11. QED
    BY <2>1, <2>6, <2>7, <2>8, <2>9, <2>10 DEF Typed, TypeOK, Idle, Jobs, Kept
<1>14. QED
  BY <1>3, <1>4, <1>5, <1>6, <1>7, <1>8, <1>9, <1>10, <1>11, <1>12, <1>13 DEF JobStep

-----------------------------------------------------------------------------
(* The commands                                                             *)

\* The steps of a job are steps for tasks of the table.
Fits(t) == \A k \in DOMAIN t : t[k].i \in DOMAIN tasks

\* The jobs for a single task.
LEMMA OneFacts ==
  ASSUME NEW i \in Nat \ {0}, NEW d \in {"start", "stop"}, NEW e \in {"start", "stop"}, i \in DOMAIN tasks
  PROVE  /\ One(i, d) \in Seq(Step) /\ Fits(One(i, d))
         /\ One(i, d) \o One(i, e) \in Seq(Step) /\ Fits(One(i, d) \o One(i, e))
<1>1. [do |-> d, i |-> i] \in Step /\ [do |-> e, i |-> i] \in Step
  BY DEF Step
<1> DEFINE a == [do |-> d, i |-> i]
           b == [do |-> e, i |-> i]
<1>2. One(i, d) = <<a>> /\ One(i, e) = <<b>> /\ a.i = i /\ b.i = i
  BY DEF One
<1> HIDE DEF a, b
<1>3. /\ <<a>> \in Seq(Step) /\ <<b>> \in Seq(Step) /\ Len(<<a>>) = 1 /\ Len(<<b>>) = 1
      /\ <<a>>[1] = a /\ <<b>>[1] = b
  BY <1>1 DEF a, b
<1>4. /\ <<a>> \o <<b>> \in Seq(Step) /\ Len(<<a>> \o <<b>>) = 2
      /\ (<<a>> \o <<b>>)[1] = a /\ (<<a>> \o <<b>>)[2] = b
  BY <1>3, ConcatProperties
<1>5. \A k \in DOMAIN (<<a>> \o <<b>>) : k = 1 \/ k = 2
  BY <1>4
<1>6. \A k \in DOMAIN <<a>> : k = 1
  OBVIOUS
<1>7. QED
  BY <1>2, <1>3, <1>4, <1>5, <1>6 DEF Fits

\* Whatever the command, it is one of these.
LEMMA CommandForms ==
  ASSUME Typed, Ipc
  PROVE  \/ \E a \in Apps : Add(a) \/ Del(a)
         \/ \E t \in Seq(Step), c \in BOOLEAN : Fits(t) /\ Command(t, c, FALSE)
         \/ ExitCmd
<1>1. tasks \in Seq(Task) /\ DOMAIN tasks \subseteq Nat \ {0}
  BY DEF Typed, TypeOK
<1>2. \A d \in {"start", "stop"} : ForAll(tasks, d) \in Seq(Step) /\ Fits(ForAll(tasks, d))
  <2> SUFFICES ASSUME NEW d \in {"start", "stop"}
               PROVE  ForAll(tasks, d) \in Seq(Step) /\ Fits(ForAll(tasks, d))
    OBVIOUS
  <2>1. /\ ForAll(tasks, d) \in Seq(Step) /\ DOMAIN ForAll(tasks, d) = DOMAIN tasks
        /\ \A k \in DOMAIN tasks : ForAll(tasks, d)[k] = [do |-> d, i |-> k]
    BY <1>1, ForAllFacts
  <2>2. QED
    BY <2>1 DEF Fits
<1>3. CASE StartAll
  BY <1>2, <1>3 DEF StartAll
<1>4. CASE StopAll
  BY <1>2, <1>4 DEF StopAll
<1>5. CASE RestartAll
  <2>1. 1 \in DOMAIN tasks
    BY <1>1, <1>5, EmptySeq DEF RestartAll
  <2>2. /\ One(1, "stop") \o One(1, "start") \in Seq(Step)
        /\ Fits(One(1, "stop") \o One(1, "start"))
    BY <2>1, OneFacts
  <2>3. QED
    BY <1>5, <2>2 DEF RestartAll
<1>6. ASSUME NEW a \in Apps, Start(a) \/ Stop(a) \/ Restart(a)
      PROVE  \E t \in Seq(Step), c \in BOOLEAN : Fits(t) /\ Command(t, c, FALSE)
  <2>1. CASE Start(a)
    BY <1>1, <2>1, OneFacts DEF Start
  <2>2. CASE Stop(a)
    BY <1>1, <2>2, OneFacts DEF Stop
  <2>3. CASE Restart(a)
    BY <1>1, <2>3, OneFacts DEF Restart
  <2>4. QED
    BY <1>6, <2>1, <2>2, <2>3
<1>7. QED
  BY <1>3, <1>4, <1>5, <1>6 DEF Ipc

\* A command waits until no job is under way and leaves the programs alone.
LEMMA CommandFacts ==
  ASSUME Typed, NEW t \in Seq(Step), NEW c \in BOOLEAN, NEW e \in BOOLEAN,
         Fits(t), Command(t, c, e)
  PROVE  /\ Typed' /\ Free /\ life = "run"
         /\ UNCHANGED <<tasks, proc, twins, astray>>
         /\ job'.todo = t /\ job'.at = "begin" /\ (job'.exits => e)
         /\ t # <<>> => job'.chain = c /\ job'.exits = e
         /\ life' = IF e /\ t = <<>> THEN "exiting" ELSE "run"
<1>1. /\ job' \in Jobs /\ job'.todo = t /\ job'.at = "begin" /\ (job'.exits => e)
      /\ t # <<>> => job'.chain = c /\ job'.exits = e
      /\ t = <<>> => job' = NoJob
  BY JobFacts DEF Command
<1>2. /\ Free /\ life = "run" /\ UNCHANGED <<tasks, proc, faults, twins, astray>>
      /\ cmds < MaxCmds /\ cmds' = cmds + 1
      /\ life' = IF e /\ t = <<>> THEN "exiting" ELSE "run"
  BY DEF Command, Reads
<1>3. cmds' \in 0 .. MaxCmds
  BY <1>2, BoundAssumption DEF Typed, TypeOK
<1>4. Idle'
  BY <1>1, <1>2 DEF Idle, Free
<1>5. \A k \in DOMAIN job'.todo : job'.todo[k].i \in DOMAIN tasks'
  BY <1>1, <1>2 DEF Fits
<1>6. TypeOK'
  BY <1>1, <1>2, <1>3, <1>5 DEF Typed, TypeOK, Jobs
<1>7. QED
  BY <1>1, <1>2, <1>4, <1>6 DEF Typed

\* The exit command makes a job of one stop for every task, in their order.
LEMMA ExitFacts ==
  ASSUME Typed, ExitCmd
  PROVE  /\ Typed' /\ Free /\ life = "run"
         /\ UNCHANGED <<tasks, proc, twins, astray>>
         /\ job'.todo = ForAll(tasks, "stop") /\ job'.at = "begin"
         /\ Len(job'.todo) = Len(tasks) /\ DOMAIN job'.todo = DOMAIN tasks
         /\ \A k \in DOMAIN job'.todo : job'.todo[k] = [do |-> "stop", i |-> k]
         /\ job'.exits => ~job'.chain
         /\ life' = IF tasks = <<>> THEN "exiting" ELSE "run"
         /\ tasks = <<>> => ~job'.exits
<1>0. tasks \in Seq(Task)
  BY DEF Typed, TypeOK
<1> DEFINE t == ForAll(tasks, "stop")
<1>1. /\ t \in Seq(Step) /\ Len(t) = Len(tasks) /\ DOMAIN t = DOMAIN tasks
      /\ \A k \in DOMAIN tasks : t[k] = [do |-> "stop", i |-> k]
  BY <1>0, ForAllFacts
<1>2. Command(t, FALSE, TRUE)
  BY DEF ExitCmd
<1> HIDE DEF t
<1>3. Fits(t)
  BY <1>1 DEF Fits
<1>4. t = <<>> <=> tasks = <<>>
  BY <1>0, <1>1, EmptySeq
<1>5. /\ Typed' /\ Free /\ life = "run"
      /\ UNCHANGED <<tasks, proc, twins, astray>>
      /\ job'.todo = t /\ job'.at = "begin"
      /\ t # <<>> => job'.chain = FALSE /\ job'.exits = TRUE
      /\ life' = IF t = <<>> THEN "exiting" ELSE "run"
  BY <1>1, <1>2, <1>3, CommandFacts
<1>6. t = <<>> => job' = NoJob
  BY <1>5 DEF Typed, Idle, Free
<1>7. t = <<>> => ~job'.exits
  BY <1>6 DEF NoJob
<1>8. QED
  BY <1>1, <1>4, <1>5, <1>7 DEF t

-----------------------------------------------------------------------------
(* The programs and the manager's own life                                  *)

\* Nothing that a program does by itself brings it back, or makes a new one.
LEMMA ProgramFacts ==
  ASSUME Typed, Programs
  PROVE  /\ Typed' /\ UNCHANGED <<tasks, job, life, twins>>
         /\ \A b \in Apps : Gone(b) => Gone(b)'
         /\ \A b \in Apps : proc[b].fresh = 0 => proc'[b].fresh = 0
<1>1. PICK a \in Apps : Appear(a) \/ Vanish(a) \/ Dies(a) \/ Crash(a)
  BY DEF Programs
<1>2. UNCHANGED <<tasks, job, life, cmds, twins>>
  BY <1>1 DEF Appear, Vanish, Dies, Crash, World
<1>3. proc \in Procs /\ proc[a] \in [fresh: 0 .. MaxFresh, up: BOOLEAN, doomed: BOOLEAN]
  BY DEF Typed, TypeOK, Procs
<1>4. /\ proc' \in Procs
      /\ \A b \in Apps : Gone(b) => Gone(b)'
      /\ \A b \in Apps : proc[b].fresh = 0 => proc'[b].fresh = 0
  <2>1. CASE Appear(a)
    <3>1. proc' = [proc EXCEPT ![a] = [fresh |-> proc[a].fresh - 1, up |-> TRUE, doomed |-> FALSE]]
          /\ proc[a].fresh > 0
      BY <2>1 DEF Appear
    <3>2. proc[a].fresh - 1 \in 0 .. MaxFresh
      BY <1>3, <3>1, BoundAssumption
    <3>3. [fresh |-> proc[a].fresh - 1, up |-> TRUE, doomed |-> FALSE]
             \in [fresh: 0 .. MaxFresh, up: BOOLEAN, doomed: BOOLEAN]
      BY <3>2
    <3>4. proc' \in Procs
      BY <1>3, <3>1, <3>3 DEF Procs
    <3>5. \A b \in Apps : b # a => proc'[b] = proc[b]
      BY <1>3, <3>1 DEF Procs
    <3>6. QED
      BY <3>1, <3>4, <3>5 DEF Gone
  <2>2. CASE Vanish(a)
    <3>1. proc' = [proc EXCEPT ![a].fresh = proc[a].fresh - 1] /\ proc[a].fresh > 0
      BY <2>2 DEF Vanish
    <3>2. proc[a].fresh - 1 \in 0 .. MaxFresh
      BY <1>3, <3>1, BoundAssumption
    <3>3. proc' \in Procs
      BY <1>3, <3>1, <3>2 DEF Procs
    <3>4. \A b \in Apps : b # a => proc'[b] = proc[b]
      BY <1>3, <3>1 DEF Procs
    <3>5. QED
      BY <3>1, <3>3, <3>4 DEF Gone
  <2>3. CASE Dies(a)
    <3>1. proc' = [proc EXCEPT ![a].up = FALSE, ![a].doomed = FALSE]
      BY <2>3 DEF Dies
    <3>2. proc' \in Procs
      BY <1>3, <3>1 DEF Procs
    <3>3. /\ \A b \in Apps : b # a => proc'[b] = proc[b]
          /\ proc'[a].fresh = proc[a].fresh /\ ~proc'[a].up
      BY <1>3, <3>1 DEF Procs
    <3>4. QED
      BY <3>2, <3>3 DEF Gone
  <2>4. CASE Crash(a)
    <3>1. proc' = [proc EXCEPT ![a].up = FALSE]
      BY <2>4 DEF Crash
    <3>2. proc' \in Procs
      BY <1>3, <3>1 DEF Procs
    <3>3. /\ \A b \in Apps : b # a => proc'[b] = proc[b]
          /\ proc'[a].fresh = proc[a].fresh /\ ~proc'[a].up
      BY <1>3, <3>1 DEF Procs
    <3>4. QED
      BY <3>2, <3>3 DEF Gone
  <2>5. QED
    BY <1>1, <2>1, <2>2, <2>3, <2>4
<1>5. faults' \in 0 .. MaxFaults
  BY <1>1, BoundAssumption DEF Typed, TypeOK, Appear, Vanish, Dies, Crash
<1>6. astray' \subseteq Apps
  BY <1>1 DEF Typed, TypeOK, Appear, Vanish, Dies, Crash, Settled
<1>7. TypeOK'
  BY <1>2, <1>4, <1>5, <1>6 DEF Typed, TypeOK, Procs
<1>8. Idle'
  BY <1>2 DEF Typed, Idle, Free
<1>9. QED
  BY <1>2, <1>4, <1>7, <1>8 DEF Typed

\* The one action of the monitor's thread that does not hold the mutex yet.
LEMMA MonitorFacts ==
  ASSUME Typed, MonitorAll
  PROVE  /\ Typed' /\ Free /\ UNCHANGED <<tasks, proc, life, twins, astray>>
         /\ ~job'.exits /\ job'.at = "begin"
         /\ \A k \in DOMAIN job'.todo : job'.todo[k].do = "monitor"
<1>1. tasks \in Seq(Task)
  BY DEF Typed, TypeOK
<1>2. /\ Free /\ UNCHANGED <<tasks, proc, life, cmds, faults, twins, astray>>
      /\ life \in {"run", "exiting"}
      /\ job' = Job(ForAll(tasks, "monitor"), FALSE, FALSE)
  BY DEF MonitorAll
<1>3. /\ job' \in Jobs /\ job'.at = "begin"
      /\ \A k \in DOMAIN job'.todo : job'.todo[k].do = "monitor" /\ job'.todo[k].i \in DOMAIN tasks
      /\ job'.todo = <<>> => job' = NoJob
      /\ ~job'.exits
  <2> DEFINE j == Job(ForAll(tasks, "monitor"), FALSE, FALSE)
  <2>1. /\ j \in Jobs /\ j.at = "begin" /\ ~j.exits
        /\ \A k \in DOMAIN j.todo : j.todo[k].do = "monitor" /\ j.todo[k].i = k /\ k \in DOMAIN tasks
        /\ j.todo = <<>> => j = NoJob
    BY <1>1, TableJob
  <2>2. job' = j
    BY <1>2
  <2> HIDE DEF j
  <2>3. QED
    BY <2>1, <2>2
<1>4. TypeOK'
  BY <1>2, <1>3 DEF Typed, TypeOK, Jobs
<1>5. Idle'
  BY <1>2, <1>3 DEF Idle, Free
<1>6. QED
  BY <1>2, <1>3, <1>4, <1>5 DEF Typed

\* Del takes one task out of the table.
LEMMA DelFacts ==
  ASSUME Typed, NEW a \in Apps, Del(a)
  PROVE  /\ Typed' /\ Free /\ life = "run" /\ UNCHANGED <<proc, job, life, twins, astray>>
         /\ \E i \in DOMAIN tasks :
               /\ Len(tasks') = Len(tasks) - 1
               /\ \A j \in DOMAIN tasks' : tasks'[j] = tasks[IF j < i THEN j ELSE j + 1]
<1>1. tasks \in Seq(Task)
  BY DEF Typed, TypeOK
<1>2. PICK i \in DOMAIN tasks : tasks' = RemoveAt(tasks, i)
  BY DEF Del
<1>3. /\ Free /\ life = "run" /\ cmds < MaxCmds /\ cmds' = cmds + 1
      /\ UNCHANGED <<proc, job, life, faults, twins, astray>>
  BY DEF Del, Reads
<1>4. /\ tasks' \in Seq(Task) /\ Len(tasks') = Len(tasks) - 1 /\ DOMAIN tasks' = 1 .. Len(tasks) - 1
      /\ \A j \in 1 .. Len(tasks) - 1 : tasks'[j] = tasks[IF j < i THEN j ELSE j + 1]
  <2>1. /\ RemoveAt(tasks, i) \in Seq(Task) /\ Len(RemoveAt(tasks, i)) = Len(tasks) - 1
        /\ \A j \in 1 .. Len(tasks) - 1 :
              RemoveAt(tasks, i)[j] = tasks[IF j < i THEN j ELSE j + 1]
    BY <1>1, RemoveFacts
  <2>2. tasks' \in Seq(Task) /\ Len(tasks') = Len(tasks) - 1
    BY <1>2, <2>1
  <2>3. DOMAIN tasks' = 1 .. Len(tasks')
    BY <2>2
  <2> QED BY <1>2, <2>1, <2>2, <2>3
<1>5. cmds' \in 0 .. MaxCmds
  BY <1>3, BoundAssumption DEF Typed, TypeOK
<1>6. job' = NoJob /\ DOMAIN job'.todo = {}
  BY <1>3 DEF Typed, Idle, NoJob
<1>7. TypeOK'
  BY <1>3, <1>4, <1>5, <1>6 DEF Typed, TypeOK
<1>8. Idle'
  BY <1>3 DEF Typed, Idle, Free
<1>9. \A j \in DOMAIN tasks' : tasks'[j] = tasks[IF j < i THEN j ELSE j + 1]
  BY <1>4
<1>10. Typed'
  BY <1>4, <1>7, <1>8 DEF Typed
<1>11. QED
  BY <1>3, <1>4, <1>9, <1>10

\* Add puts a new task at the end of the table.
LEMMA AddFacts ==
  ASSUME Typed, NEW a \in Apps, Add(a)
  PROVE  /\ Typed' /\ Free /\ life = "run" /\ UNCHANGED <<proc, job, life, astray>>
         /\ Len(tasks') = Len(tasks) + 1 /\ Len(tasks) \in Nat
         /\ \A j \in DOMAIN tasks : tasks'[j] = tasks[j]
         /\ tasks'[Len(tasks) + 1].st = "min"
         /\ twins' = twins \cup TwinsOf(tasks')
<1>1. tasks \in Seq(Task) /\ NewTask(a) \in Task /\ NewTask(a).st = "min"
  BY DEF Typed, TypeOK, NewTask, Task, TaskStates
<1>2. /\ Free /\ life = "run" /\ cmds < MaxCmds /\ cmds' = cmds + 1
      /\ tasks' = Append(tasks, NewTask(a))
      /\ twins' = twins \cup TwinsOf(tasks')
      /\ UNCHANGED <<proc, job, life, faults, astray>>
  BY DEF Add, Reads
<1>3. /\ tasks' \in Seq(Task) /\ Len(tasks') = Len(tasks) + 1 /\ Len(tasks) \in Nat
      /\ \A j \in DOMAIN tasks : tasks'[j] = tasks[j]
      /\ tasks'[Len(tasks) + 1] = NewTask(a)
  BY <1>1, <1>2
<1>4. cmds' \in 0 .. MaxCmds
  BY <1>2, BoundAssumption DEF Typed, TypeOK
<1>5. job' = NoJob /\ DOMAIN job'.todo = {}
  BY <1>2 DEF Typed, Idle, NoJob
<1>6. twins' \subseteq Apps
  BY <1>2 DEF Typed, TypeOK, TwinsOf
<1>7. TypeOK'
  BY <1>2, <1>3, <1>4, <1>5, <1>6 DEF Typed, TypeOK
<1>8. Idle'
  BY <1>2 DEF Typed, Idle, Free
<1>9. QED
  BY <1>1, <1>2, <1>3, <1>7, <1>8 DEF Typed

\* A manager that comes up again has the tasks of the file, not started.
LEMMA BootFacts ==
  ASSUME Typed, Boot
  PROVE  /\ Typed' /\ Free /\ life' = "boot" /\ UNCHANGED <<proc, astray>>
         /\ \A k \in DOMAIN tasks' : tasks'[k].st = "min"
         /\ ~job'.exits /\ job'.at = "begin" /\ twins' = TwinsOf(tasks')
<1>1. /\ tasks' = LoadConf /\ twins' = TwinsOf(LoadConf) /\ life' = "boot"
      /\ job' = Job(ForAll(LoadConf, "start"), TRUE, FALSE)
      /\ life \in {"exited", "dead"}
      /\ UNCHANGED <<proc, cmds, faults, astray>>
  BY DEF Boot
<1>2. tasks' \in Seq(Task) /\ \A k \in DOMAIN tasks' : tasks'[k].st = "min"
  BY <1>1, ConfTasks
<1>3. /\ job' \in Jobs /\ job'.at = "begin"
      /\ \A k \in DOMAIN job'.todo : job'.todo[k].i \in DOMAIN LoadConf
      /\ job'.todo = <<>> => job' = NoJob
      /\ ~job'.exits
  <2> DEFINE j == Job(ForAll(LoadConf, "start"), TRUE, FALSE)
  <2>1. /\ j \in Jobs /\ j.at = "begin" /\ ~j.exits
        /\ \A k \in DOMAIN j.todo : j.todo[k].do = "start" /\ j.todo[k].i = k /\ k \in DOMAIN LoadConf
        /\ j.todo = <<>> => j = NoJob
    BY ConfTasks, TableJob
  <2>2. job' = j
    BY <1>1
  <2> HIDE DEF j
  <2>3. QED
    BY <2>1, <2>2
<1>4. Free
  BY <1>1 DEF Typed, Idle
<1>5. twins' \subseteq Apps
  BY <1>1 DEF TwinsOf
<1>6. TypeOK'
  BY <1>1, <1>2, <1>3, <1>5 DEF Typed, TypeOK, Jobs
<1>7. Idle'
  BY <1>1, <1>3 DEF Idle, Free
<1>8. QED
  BY <1>1, <1>2, <1>3, <1>4, <1>6, <1>7 DEF Typed

\* The steps that only change what the manager's process does.
LEMMA LifeFacts ==
  ASSUME Typed, Serve \/ Exit \/ ManagerDies
  PROVE  Typed' /\ Free' /\ ~job'.exits
<1>1. NoJob \in Jobs /\ NoJob.todo = <<>> /\ ~NoJob.exits
  BY DEF NoJob, Jobs
<1>2. CASE Serve
  <2>1. Free /\ life' = "run" /\ UNCHANGED <<tasks, proc, job, cmds, faults, twins, astray>>
    BY <1>2 DEF Serve
  <2>2. job' = NoJob
    BY <2>1 DEF Typed, Idle
  <2>3. TypeOK'
    BY <2>1 DEF Typed, TypeOK
  <2>4. QED
    BY <1>1, <2>1, <2>2, <2>3 DEF Typed, Idle, Free
<1>3. CASE Exit
  <2>1. job' = NoJob /\ life' = "exited" /\ UNCHANGED <<tasks, proc, cmds, faults, twins, astray>>
    BY <1>3 DEF Exit
  <2>2. TypeOK'
    BY <1>1, <2>1 DEF Typed, TypeOK, Jobs
  <2>3. QED
    BY <1>1, <2>1, <2>2 DEF Typed, Idle, Free
<1>4. CASE ManagerDies
  <2>1. /\ job' = NoJob /\ life' = "dead" /\ UNCHANGED <<tasks, proc, cmds, twins>>
        /\ faults < MaxFaults /\ faults' = faults + 1 /\ astray' = astray \cup Abandoned(proc)
    BY <1>4 DEF ManagerDies
  <2>2. faults' \in 0 .. MaxFaults /\ astray' \subseteq Apps
    BY <2>1, BoundAssumption DEF Typed, TypeOK, Abandoned
  <2>3. TypeOK'
    BY <1>1, <2>1, <2>2 DEF Typed, TypeOK, Jobs
  <2>4. QED
    BY <1>1, <2>1, <2>3 DEF Typed, Idle, Free
<1>5. QED
  BY <1>2, <1>3, <1>4

\* Every step keeps the types.
LEMMA StepTyped ==
  ASSUME Typed, [Next]_vars
  PROVE  Typed'
<1>1. CASE Ipc
  <2>1. ASSUME NEW t \in Seq(Step), NEW c \in BOOLEAN, Fits(t), Command(t, c, FALSE)
        PROVE  Typed'
    BY <2>1, CommandFacts
  <2>2. QED
    BY <1>1, <2>1, CommandForms, AddFacts, DelFacts, ExitFacts
<1>2. CASE UNCHANGED vars
  BY <1>2 DEF vars, Typed, TypeOK, Idle, Free
<1>3. QED
  BY <1>1, <1>2, BootFacts, LifeFacts, MonitorFacts, JobStepTyped, ProgramFacts DEF Next

\* The table, its job and the programs keep their types; a job never refers to a
\* task that is not in the table, and a manager that is gone has no job.
THEOREM ManagerTypeCorrect == Spec => []Typed
<1>1. Init => Typed
  <2> SUFFICES ASSUME Init
               PROVE  Typed
    OBVIOUS
  <2>1. LoadConf \in Seq(Task) /\ tasks = LoadConf
    BY ConfTasks DEF Init
  <2>2. /\ job \in Jobs /\ (job.todo = <<>> => job = NoJob)
        /\ \A k \in DOMAIN job.todo : job.todo[k].i \in DOMAIN tasks
    <3> DEFINE j == Job(ForAll(LoadConf, "start"), TRUE, FALSE)
    <3>1. /\ j \in Jobs /\ (j.todo = <<>> => j = NoJob)
          /\ \A k \in DOMAIN j.todo : j.todo[k].i = k /\ k \in DOMAIN LoadConf
      BY <2>1, TableJob
    <3>2. job = j
      BY DEF Init
    <3> HIDE DEF j
    <3>3. QED
      BY <2>1, <3>1, <3>2
  <2>3. Down \in [fresh: 0 .. MaxFresh, up: BOOLEAN, doomed: BOOLEAN]
    BY BoundAssumption DEF Down
  <2>4. proc \in Procs
    BY <2>3 DEF Init, Procs
  <2>5. /\ cmds \in 0 .. MaxCmds /\ faults \in 0 .. MaxFaults /\ life = "boot"
        /\ twins \subseteq Apps /\ astray \subseteq Apps
    BY BoundAssumption DEF Init, TwinsOf
  <2>6. QED
    BY <2>1, <2>2, <2>4, <2>5 DEF Typed, TypeOK, Idle, Free, Jobs, Procs
<1>2. Typed /\ [Next]_vars => Typed'
  BY StepTyped
<1>3. QED
  BY <1>1, <1>2, PTL DEF Spec

-----------------------------------------------------------------------------
(* What a stop has done                                                     *)

\* Behind the signals of a stop no instance of the program is still to come.
Drained == Does("stop", "drain") => proc[App].fresh = 0

\* A step of the job does one thing to the table and one to its program.
LEMMA StepEffect ==
  ASSUME Typed, JobStep
  PROVE  /\ ~Free /\ UNCHANGED twins
         /\ \A b \in Apps : b # App => proc'[b] = proc[b]
         /\ Now.do # "start" => /\ \A b \in Apps : Gone(b) => Gone(b)'
                                /\ \A b \in Apps : proc[b].fresh = 0 => proc'[b].fresh = 0
         /\ DOMAIN tasks' = DOMAIN tasks /\ Len(tasks') = Len(tasks)
         /\ \A k \in DOMAIN tasks : k # Now.i => tasks'[k] = tasks[k]
         /\ \A k \in DOMAIN tasks : tasks'[k].app = tasks[k].app
<1>0. ~Free
  BY DEF JobStep, StartFinds, StartFails, Launch, PollSees, PollGivesUp, StopSignals, StopSees,
         StopForces, MonitorSkips, MonitorFindsUp, MonitorFindsDown, Does
<1>1. proc \in Procs /\ App \in Apps
  BY <1>0, NowFacts DEF Typed, TypeOK, Procs
<1>2. UNCHANGED twins
  BY DEF JobStep, StartFinds, StartFails, Launch, PollSees, PollGivesUp, StopSignals, StopSees,
         StopForces, MonitorSkips, MonitorFindsUp, MonitorFindsDown, Kept
<1>3. \/ \E st \in TaskStates : Is(st)
      \/ UNCHANGED tasks
  BY DEF JobStep, StartFinds, StartFails, Launch, PollSees, PollGivesUp, StopSignals, StopSees,
         StopForces, MonitorSkips, MonitorFindsUp, MonitorFindsDown, TaskStates
<1>4. /\ DOMAIN tasks' = DOMAIN tasks /\ Len(tasks') = Len(tasks)
      /\ \A k \in DOMAIN tasks : k # Now.i => tasks'[k] = tasks[k]
      /\ \A k \in DOMAIN tasks : tasks'[k].app = tasks[k].app
  <2>1. CASE UNCHANGED tasks
    BY <2>1
  <2>2. ASSUME NEW st \in TaskStates, Is(st)
        PROVE  /\ DOMAIN tasks' = DOMAIN tasks /\ Len(tasks') = Len(tasks)
               /\ \A k \in DOMAIN tasks : k # Now.i => tasks'[k] = tasks[k]
               /\ \A k \in DOMAIN tasks : tasks'[k].app = tasks[k].app
    <3>1. /\ DOMAIN tasks' = DOMAIN tasks /\ Len(tasks') = Len(tasks)
          /\ tasks'[Now.i] = [app |-> App, st |-> st]
          /\ \A k \in DOMAIN tasks : k # Now.i => tasks'[k] = tasks[k]
      BY <1>0, <2>2, IsFacts
    <3>2. App = tasks[Now.i].app
      BY DEF App
    <3>3. QED
      BY <3>1, <3>2
  <2>3. QED
    BY <1>3, <2>1, <2>2
<1>5. \/ UNCHANGED proc
      \/ Now.do = "start" /\ proc' = [proc EXCEPT ![App].fresh = @ + 1]
      \/ \E d \in BOOLEAN : /\ proc' = [proc EXCEPT ![App].fresh = 0, ![App].doomed = d]
                            /\ proc[App].up /\ proc[App].doomed => d
  <2>1. CASE Launch
    BY <2>1 DEF Launch, Does
  <2>2. CASE StopSignals
    <3>1. PICK obeys \in BOOLEAN :
             proc' = [proc EXCEPT ![App].fresh = 0,
                                  ![App].doomed = @ \/ (obeys /\ proc[App].up)]
      BY <2>2 DEF StopSignals
    <3> DEFINE d == proc[App].doomed \/ (obeys /\ proc[App].up)
    <3>2. proc' = [proc EXCEPT ![App].fresh = 0, ![App].doomed = d]
      BY <1>1, <3>1
    <3>3. d \in BOOLEAN
      OBVIOUS
    <3>4. proc[App].up /\ proc[App].doomed => d
      OBVIOUS
    <3> HIDE DEF d
    <3>5. QED
      BY <3>2, <3>3, <3>4
  <2>3. CASE StopForces
    <3>1. proc' = [proc EXCEPT ![App].fresh = 0, ![App].doomed = proc[App].up]
      BY <2>3 DEF StopForces
    <3>2. proc[App].up \in BOOLEAN
      BY <1>1 DEF Procs
    <3>3. QED
      BY <3>1, <3>2
  <2>4. QED
    BY <2>1, <2>2, <2>3 DEF JobStep, StartFinds, StartFails, PollSees, PollGivesUp, StopSees,
                            MonitorSkips, MonitorFindsUp, MonitorFindsDown
<1>6. \A b \in Apps : b # App => proc'[b] = proc[b]
  BY <1>1, <1>5 DEF Procs
<1>7. ASSUME Now.do # "start"
      PROVE  /\ \A b \in Apps : Gone(b) => Gone(b)'
             /\ \A b \in Apps : proc[b].fresh = 0 => proc'[b].fresh = 0
  <2>1. CASE UNCHANGED proc
    BY <2>1 DEF Gone
  <2>2. ASSUME NEW d \in BOOLEAN,
               proc' = [proc EXCEPT ![App].fresh = 0, ![App].doomed = d],
               proc[App].up /\ proc[App].doomed => d
        PROVE  /\ \A b \in Apps : Gone(b) => Gone(b)'
               /\ \A b \in Apps : proc[b].fresh = 0 => proc'[b].fresh = 0
    <3>1. /\ proc'[App].fresh = 0 /\ proc'[App].up = proc[App].up /\ proc'[App].doomed = d
      BY <1>1, <2>2 DEF Procs
    <3>2. QED
      BY <1>1, <1>6, <2>2, <3>1 DEF Gone
  <2>3. QED
    BY <1>5, <1>7, <2>1, <2>2
<1>8. QED
  BY <1>0, <1>2, <1>4, <1>6, <1>7

\* Launch and StopSignals only move the job on.
LEMMA MovesOn ==
  ASSUME Typed, ~Free, NEW place, job' = [job EXCEPT !.at = place], UNCHANGED tasks
  PROVE  /\ job'.todo = job.todo /\ job'.at = place /\ job'.exits = job.exits /\ job'.chain = job.chain
         /\ Now' = Now /\ App' = App /\ ~Free'
<1>1. job \in Jobs
  BY DEF Typed, TypeOK, Jobs
<1>2. job'.todo = job.todo /\ job'.at = place /\ job'.exits = job.exits /\ job'.chain = job.chain
  BY <1>1 DEF Jobs
<1>3. QED
  BY <1>2 DEF Now, App, Free

\* No step disturbs Drained.
LEMMA DrainedKept ==
  ASSUME Typed, Drained, [Next]_vars
  PROVE  Drained'
<1>1. CASE job'.at = "begin" \/ Free'
  BY <1>1 DEF Drained, Does
<1>2. CASE JobStep
  <2>0. ~Free
    BY <1>2, StepEffect
  <2>1. CASE Launch
    BY <2>0, <2>1, MovesOn DEF Launch, Drained, Does
  <2>2. CASE StopSignals
    <3>1. Now' = Now /\ App' = App
      BY <2>0, <2>2, MovesOn DEF StopSignals
    <3>2. proc \in Procs /\ App \in Apps
      BY <2>0, NowFacts DEF Typed, TypeOK, Procs
    <3>3. PICK obeys \in BOOLEAN :
             proc' = [proc EXCEPT ![App].fresh = 0,
                                  ![App].doomed = @ \/ (obeys /\ proc[App].up)]
      BY <2>2 DEF StopSignals
    <3>4. proc'[App].fresh = 0
      BY <3>2, <3>3 DEF Procs
    <3>5. QED
      BY <3>1, <3>4 DEF Drained
  <2>3. CASE MonitorFindsDown
    <3>1. job.at = "begin" /\ job' = [job EXCEPT !.todo = <<[Now EXCEPT !.do = "start"]>> \o Tail(@)]
      BY <2>3 DEF MonitorFindsDown, Does
    <3>2. job \in Jobs
      BY DEF Typed, TypeOK, Jobs
    <3>3. job'.at = "begin"
      BY <3>1, <3>2 DEF Jobs
    <3>4. QED
      BY <1>1, <3>3
  <2>4. CASE Ends(TRUE) \/ Ends(FALSE)
    BY <1>1, <2>0, <2>4, EndsFacts
  <2>5. QED
    BY <1>2, <2>1, <2>2, <2>3, <2>4 DEF JobStep, StartFinds, StartFails, PollSees, PollGivesUp,
       StopSees, StopForces, MonitorSkips, MonitorFindsUp
<1>3. CASE Ipc
  <2>1. ASSUME NEW t \in Seq(Step), NEW c \in BOOLEAN, Fits(t), Command(t, c, FALSE)
        PROVE  job'.at = "begin"
    BY <2>1, CommandFacts
  <2>2. ASSUME NEW a \in Apps, Add(a) \/ Del(a)
        PROVE  Free'
    BY <2>2, AddFacts, DelFacts DEF Free
  <2>3. QED
    BY <1>1, <1>3, <2>1, <2>2, CommandForms, ExitFacts
<1>4. CASE Programs
  <2>1. UNCHANGED <<job, tasks>> /\ \A b \in Apps : proc[b].fresh = 0 => proc'[b].fresh = 0
    BY <1>4, ProgramFacts
  <2>2. ~Free => App \in Apps
    BY NowFacts
  <2>3. QED
    BY <2>1, <2>2 DEF Drained, Does, Now, App, Free
<1>5. CASE Boot \/ MonitorAll
  BY <1>1, <1>5, BootFacts, MonitorFacts
<1>6. CASE Serve \/ Exit \/ ManagerDies
  BY <1>1, <1>6, LifeFacts
<1>7. CASE UNCHANGED vars
  BY <1>7 DEF vars, Drained, Does, Now, App, Free
<1>8. QED
  BY <1>2, <1>3, <1>4, <1>5, <1>6, <1>7 DEF Next

\* A stop that ends leaves the program gone.
LEMMA StopEnds ==
  ASSUME Typed, Drained, JobStep, StopSees \/ StopForces
  PROVE  /\ tasks'[Now.i].st = "stoped" /\ tasks'[Now.i].app = App
         /\ proc'[App].fresh = 0 /\ (proc'[App].up => proc'[App].doomed)
         /\ Ends(TRUE) /\ Now.do = "stop" /\ ~Free
<1>0. ~Free /\ Now.do = "stop" /\ Is("stoped") /\ Ends(TRUE)
  BY DEF StopSees, StopForces, Does
<1>1. tasks'[Now.i] = [app |-> App, st |-> "stoped"]
  BY <1>0, IsFacts DEF TaskStates
<1>2. proc \in Procs /\ App \in Apps
  BY <1>0, NowFacts DEF Typed, TypeOK, Procs
<1>3. ASSUME StopSees
      PROVE  proc'[App].fresh = 0 /\ (proc'[App].up => proc'[App].doomed)
  BY <1>2, <1>3 DEF StopSees, Drained
<1>4. ASSUME StopForces
      PROVE  proc'[App].fresh = 0 /\ (proc'[App].up => proc'[App].doomed)
  <2>1. proc' = [proc EXCEPT ![App].fresh = 0, ![App].doomed = proc[App].up]
    BY <1>4 DEF StopForces
  <2>2. proc'[App].fresh = 0 /\ proc'[App].up = proc[App].up /\ proc'[App].doomed = proc[App].up
    BY <1>2, <2>1 DEF Procs
  <2>3. QED
    BY <2>2
<1>5. proc'[App].fresh = 0 /\ (proc'[App].up => proc'[App].doomed)
  BY <1>3, <1>4
<1>6. tasks'[Now.i].st = "stoped" /\ tasks'[Now.i].app = App
  BY <1>1
<1>7. QED
  BY <1>0, <1>5, <1>6

-----------------------------------------------------------------------------
(* The exit command                                                         *)

Stopped(i) == tasks[i].st = "stoped" /\ Gone(tasks[i].app)

\* How far the exit command has come, and that it stays so until exit(0).
Leaving ==
  /\ job.exits =>
       /\ ~job.chain /\ life = "run" /\ ~Free /\ Len(job.todo) <= Len(tasks)
       /\ \A k \in DOMAIN job.todo : /\ job.todo[k].do = "stop"
                                     /\ job.todo[k].i = Len(tasks) - Len(job.todo) + k
       /\ \A i \in 1 .. Len(tasks) - Len(job.todo) : Stopped(i)
  /\ life \in {"exiting", "exited"} =>
       /\ ~job.exits
       /\ \A i \in DOMAIN tasks : Stopped(i)
       /\ \A k \in DOMAIN job.todo : job.todo[k].do = "monitor"

\* A step of the exit command's job, or of the monitor's after it.
LEMMA LeavingStep ==
  ASSUME Typed, Drained, Leaving, JobStep
  PROVE  Leaving'
<1>0. ~Free /\ life \in {"boot", "run", "exiting"}
  BY StepEffect DEF Typed, TypeOK, Idle
<1>1. /\ Now = job.todo[1] /\ Now.i \in DOMAIN tasks /\ Len(job.todo) \in Nat \ {0}
      /\ job.todo \in Seq(Step) /\ tasks \in Seq(Task) /\ App = tasks[Now.i].app
      /\ DOMAIN job.todo = 1 .. Len(job.todo) /\ DOMAIN tasks = 1 .. Len(tasks) /\ Len(tasks) \in Nat
      /\ \A k \in DOMAIN tasks : tasks[k].app \in Apps
  <2>1. job.todo \in Seq(Step) /\ tasks \in Seq(Task)
    BY DEF Typed, TypeOK
  <2>2. \A k \in DOMAIN tasks : tasks[k] \in Task
    BY <2>1
  <2>3. \A k \in DOMAIN tasks : tasks[k].app \in Apps
    BY <2>2 DEF Task
  <2>4. /\ DOMAIN job.todo = 1 .. Len(job.todo) /\ DOMAIN tasks = 1 .. Len(tasks)
        /\ Len(tasks) \in Nat
    BY <2>1
  <2>5. QED
    BY <1>0, <2>1, <2>3, <2>4, NowFacts
<1>2. 1 \in DOMAIN job.todo
  BY <1>1
<1>3. /\ DOMAIN tasks' = DOMAIN tasks /\ Len(tasks') = Len(tasks)
      /\ \A k \in DOMAIN tasks : k # Now.i => tasks'[k] = tasks[k]
      /\ \A k \in DOMAIN tasks : tasks'[k].app = tasks[k].app
  BY StepEffect
<1>4. CASE job.exits
  <2>1. /\ ~job.chain /\ life = "run" /\ Len(job.todo) <= Len(tasks)
        /\ Now.do = "stop" /\ Now.i = Len(tasks) - Len(job.todo) + 1
        /\ \A i \in 1 .. Len(tasks) - Len(job.todo) : Stopped(i)
    BY <1>1, <1>2, <1>4 DEF Leaving
  <2>0. PICK a \in Nat, b \in Nat \ {0}, m \in Nat, n \in Nat \ {0} :
           /\ a = Len(tasks) /\ b = Len(job.todo) /\ b <= a /\ m = a - b /\ n = a - b + 1
           /\ n = Now.i
    <3>1. PICK a \in Nat, b \in Nat \ {0} : a = Len(tasks) /\ b = Len(job.todo)
      BY <1>1
    <3>2. b <= a /\ Now.i = a - b + 1
      BY <2>1, <3>1
    <3>3. a - b \in Nat /\ a - b + 1 \in Nat \ {0}
      BY <3>2
    <3>4. QED
      BY <3>1, <3>2, <3>3
  <2>2. \A p \in Apps : Gone(p) => Gone(p)'
    BY <2>1, StepEffect
  <2>3. \A i \in 1 .. m : Stopped(i)'
    <3> SUFFICES ASSUME NEW i \in 1 .. m
                 PROVE  Stopped(i)'
      OBVIOUS
    <3>0. i \in 1 .. a /\ i # n
      BY <2>0
    <3>1. i \in DOMAIN tasks /\ i # Now.i
      BY <1>1, <2>0, <3>0
    <3>2. tasks'[i] = tasks[i]
      BY <1>3, <3>1
    <3>3. Stopped(i) /\ Gone(tasks[i].app)'
      BY <1>1, <1>3, <2>0, <2>1, <2>2, <3>1, <3>2 DEF Stopped, Gone
    <3>4. QED
      BY <3>2, <3>3 DEF Stopped
  <2>4. CASE StopSignals
    <3>1. UNCHANGED <<tasks, life>> /\ job' = [job EXCEPT !.at = "drain"]
      BY <2>4 DEF StopSignals
    <3>2. job'.todo = job.todo /\ job'.exits = job.exits /\ job'.chain = job.chain /\ ~Free'
      BY <1>0, <3>1, MovesOn
    <3>3. QED
      BY <1>4, <2>0, <2>1, <2>3, <3>1, <3>2 DEF Leaving
  <2>5. CASE StopSees \/ StopForces
    <3>1. /\ tasks'[Now.i].st = "stoped" /\ tasks'[Now.i].app = App
          /\ proc'[App].fresh = 0 /\ (proc'[App].up => proc'[App].doomed)
          /\ Ends(TRUE)
      BY <2>5, StopEnds
    <3>2. Stopped(n)'
      <4>1. tasks'[n].st = "stoped" /\ tasks'[n].app = App
        BY <2>0, <3>1
      <4>2. QED
        BY <3>1, <4>1 DEF Stopped, Gone
    <3>3. /\ job'.todo = Tail(job.todo) /\ (job'.todo = <<>> => job' = NoJob)
          /\ job'.todo # <<>> => job'.exits = job.exits /\ job'.chain = job.chain
          /\ life' = IF job.exits /\ job'.todo = <<>> THEN "exiting" ELSE life
      BY <1>0, <2>1, <3>1, EndsFacts
    <3>4. /\ Len(job'.todo) = Len(job.todo) - 1 /\ DOMAIN job'.todo = 1 .. Len(job.todo) - 1
          /\ \A k \in 1 .. Len(job.todo) - 1 : job'.todo[k] = job.todo[k + 1]
      BY <1>0, <3>3, NowFacts
    <3>5. \A i \in 1 .. n : Stopped(i)'
      <4>1. \A i \in 1 .. n : i = n \/ i \in 1 .. m
        BY <2>0
      <4>2. QED
        BY <2>3, <3>2, <4>1
    <3>6. CASE job'.todo = <<>>
      <4>1. Len(job.todo) = 1
        BY <1>1, <3>4, <3>6
      <4>2. job' = NoJob /\ life' = "exiting" /\ ~NoJob.exits
        BY <1>4, <3>3, <3>6 DEF NoJob
      <4>3. \A i \in DOMAIN tasks' : Stopped(i)'
        BY <1>1, <1>3, <2>0, <3>5, <4>1
      <4>4. \A k \in DOMAIN job'.todo : FALSE
        BY <3>6
      <4>5. QED
        BY <4>2, <4>3, <4>4 DEF Leaving
    <3>7. CASE job'.todo # <<>>
      <4>1. job'.exits /\ ~job'.chain /\ life' = "run"
        BY <1>4, <2>1, <3>3, <3>7
      <4>2. \A k \in 1 .. Len(job.todo) - 1 :
               /\ job'.todo[k].do = "stop"
               /\ job'.todo[k].i = Len(tasks) - (Len(job.todo) - 1) + k
        <5>1. \A k \in 1 .. Len(job.todo) :
                 job.todo[k].do = "stop" /\ job.todo[k].i = Len(tasks) - Len(job.todo) + k
          BY <1>1, <1>4 DEF Leaving
        <5>2. \A k \in 1 .. Len(job.todo) - 1 : k + 1 \in 1 .. Len(job.todo)
          BY <1>1
        <5>3. \A k \in 1 .. Len(job.todo) - 1 :
                 job'.todo[k].do = "stop" /\ job'.todo[k].i = m + (k + 1)
          <6> SUFFICES ASSUME NEW k \in 1 .. Len(job.todo) - 1
                       PROVE  job'.todo[k].do = "stop" /\ job'.todo[k].i = m + (k + 1)
            OBVIOUS
          <6>1. k + 1 \in 1 .. Len(job.todo) /\ job'.todo[k] = job.todo[k + 1]
            BY <3>4, <5>2
          <6>2. /\ job.todo[k + 1].do = "stop"
                /\ job.todo[k + 1].i = Len(tasks) - Len(job.todo) + (k + 1)
            BY <5>1, <6>1
          <6>3. Len(tasks) - Len(job.todo) = m
            BY <2>0
          <6>4. QED
            BY <6>1, <6>2, <6>3
        <5>4. \A k \in 1 .. Len(job.todo) - 1 :
                 m + (k + 1) = Len(tasks) - (Len(job.todo) - 1) + k
          <6>1. \A k \in 1 .. b - 1 : m + (k + 1) = a - (b - 1) + k
            BY <2>0
          <6>2. QED
            BY <2>0, <6>1
        <5>5. QED
          BY <5>3, <5>4
      <4>3. Len(tasks') - Len(job'.todo) = n
        <5>1. Len(tasks') = a /\ Len(job'.todo) = b - 1
          BY <1>3, <2>0, <3>4
        <5>2. a - (b - 1) = n
          BY <2>0
        <5>3. QED
          BY <5>1, <5>2
      <4>4. Len(job'.todo) <= Len(tasks') /\ ~Free'
        BY <1>1, <1>3, <2>1, <3>4, <3>7 DEF Free
      <4>5. \A i \in 1 .. Len(tasks') - Len(job'.todo) : Stopped(i)'
        BY <3>5, <4>3
      <4>6. \A k \in DOMAIN job'.todo :
               job'.todo[k].do = "stop" /\ job'.todo[k].i = Len(tasks') - Len(job'.todo) + k
        BY <1>3, <3>4, <4>2
      <4>7. QED
        BY <4>1, <4>4, <4>5, <4>6 DEF Leaving
    <3>8. QED
      BY <3>6, <3>7
  <2>6. QED
    BY <2>1, <2>4, <2>5 DEF JobStep, StartFinds, StartFails, Launch, PollSees, PollGivesUp,
       MonitorSkips, MonitorFindsUp, MonitorFindsDown, Does
<1>5. CASE ~job.exits /\ life = "exiting"
  <2>1. Now.do = "monitor" /\ tasks[Now.i].st = "stoped"
    BY <1>1, <1>2, <1>5 DEF Leaving, Stopped
  <2>2. MonitorSkips
    BY <2>1 DEF JobStep, StartFinds, StartFails, Launch, PollSees, PollGivesUp, StopSignals,
       StopSees, StopForces, MonitorFindsUp, MonitorFindsDown, Does
  <2>3. Ends(TRUE) /\ UNCHANGED <<tasks, proc>>
    BY <2>2 DEF MonitorSkips
  <2>4. /\ job'.todo \in {<<>>, Tail(job.todo)} /\ ~job'.exits /\ life' = life
    BY <1>0, <1>5, <2>3, EndsFacts
  <2>5. \A k \in DOMAIN job'.todo : job'.todo[k].do = "monitor"
    <3>1. CASE job'.todo = <<>>
      BY <3>1
    <3>2. CASE job'.todo = Tail(job.todo)
      <4>1. \A k \in DOMAIN job'.todo : k + 1 \in DOMAIN job.todo /\ job'.todo[k] = job.todo[k + 1]
        BY <1>0, <1>1, <3>2, NowFacts
      <4>2. QED
        BY <1>5, <4>1 DEF Leaving
    <3>3. QED
      BY <2>4, <3>1, <3>2
  <2>6. \A i \in DOMAIN tasks' : Stopped(i)'
    BY <1>5, <2>3 DEF Leaving, Stopped, Gone
  <2>7. QED
    BY <1>5, <2>4, <2>5, <2>6 DEF Leaving
<1>6. CASE ~job.exits /\ life # "exiting"
  <2>1. CASE Launch \/ StopSignals
    <3>1. life' = life /\ job'.exits = job.exits
      BY <1>0, <2>1, MovesOn DEF Launch, StopSignals
    <3>2. QED
      BY <1>0, <1>6, <3>1 DEF Leaving
  <2>2. CASE MonitorFindsDown
    <3>1. job \in Jobs
      BY DEF Typed, TypeOK, Jobs
    <3>2. life' = life /\ job' = [job EXCEPT !.todo = <<[Now EXCEPT !.do = "start"]>> \o Tail(@)]
      BY <2>2 DEF MonitorFindsDown
    <3>3. job'.exits = job.exits
      BY <3>1, <3>2 DEF Jobs
    <3>4. QED
      BY <1>0, <1>6, <3>2, <3>3 DEF Leaving
  <2>3. ASSUME NEW ok \in BOOLEAN, Ends(ok)
        PROVE  Leaving'
    <3>1. life' = life /\ ~job'.exits
      BY <1>0, <1>6, <2>3, EndsFacts
    <3>2. QED
      BY <1>0, <1>6, <3>1 DEF Leaving
  <2>4. QED
    BY <2>1, <2>2, <2>3 DEF JobStep, StartFinds, StartFails, PollSees, PollGivesUp,
       StopSees, StopForces, MonitorSkips, MonitorFindsUp
<1>7. QED
  BY <1>0, <1>4, <1>5, <1>6

\* No step disturbs Leaving.
LEMMA LeavingKept ==
  ASSUME Typed, Drained, Leaving, [Next]_vars
  PROVE  Leaving'
<1>0. /\ tasks \in Seq(Task) /\ DOMAIN tasks = 1 .. Len(tasks) /\ Len(tasks) \in Nat
      /\ \A k \in DOMAIN tasks : tasks[k].app \in Apps
  <2>1. tasks \in Seq(Task)
    BY DEF Typed, TypeOK
  <2>2. \A k \in DOMAIN tasks : tasks[k] \in Task
    BY <2>1
  <2>3. QED
    BY <2>1, <2>2 DEF Task
<1>1. CASE life' \notin {"exiting", "exited"} /\ ~job'.exits
  BY <1>1 DEF Leaving
<1>2. CASE JobStep
  BY <1>2, LeavingStep
<1>3. CASE Ipc
  <2>1. ASSUME NEW a \in Apps, Add(a) \/ Del(a)
        PROVE  Leaving'
    <3>1. job' = job /\ Free /\ life' = "run"
      BY <2>1, AddFacts, DelFacts
    <3>2. ~job'.exits
      BY <3>1 DEF Leaving
    <3>3. QED
      BY <1>1, <3>1, <3>2
  <2>2. ASSUME NEW t \in Seq(Step), NEW c \in BOOLEAN, Fits(t), Command(t, c, FALSE)
        PROVE  Leaving'
    <3>1. life' = "run" /\ ~job'.exits
      BY <2>2, CommandFacts
    <3>2. QED
      BY <1>1, <3>1
  <2>3. CASE ExitCmd
    <3>1. /\ job'.exits => ~job'.chain
          /\ Len(job'.todo) = Len(tasks) /\ DOMAIN job'.todo = DOMAIN tasks
          /\ \A k \in DOMAIN job'.todo : job'.todo[k] = [do |-> "stop", i |-> k]
          /\ life' = IF tasks = <<>> THEN "exiting" ELSE "run"
          /\ tasks = <<>> => ~job'.exits
          /\ UNCHANGED tasks
      BY <2>3, ExitFacts
    <3>2. CASE tasks = <<>>
      <4>1. DOMAIN tasks = {} /\ DOMAIN job'.todo = {}
        BY <3>1, <3>2
      <4>2. QED
        BY <3>1, <3>2, <4>1 DEF Leaving
    <3>3. CASE tasks # <<>>
      <4>1. Len(tasks) > 0
        BY <1>0, <3>3, EmptySeq
      <4>2. ~Free'
        BY <3>1, <4>1 DEF Free
      <4>3. \A k \in DOMAIN job'.todo :
               job'.todo[k].do = "stop" /\ job'.todo[k].i = Len(tasks) - Len(tasks) + k
        <5>1. Len(tasks) - Len(tasks) = 0 /\ \A k \in DOMAIN tasks : 0 + k = k
          BY <1>0
        <5>2. \A k \in DOMAIN job'.todo : job'.todo[k].do = "stop" /\ job'.todo[k].i = k
          <6> SUFFICES ASSUME NEW k \in DOMAIN job'.todo
                       PROVE  job'.todo[k].do = "stop" /\ job'.todo[k].i = k
            OBVIOUS
          <6>1. job'.todo[k] = [do |-> "stop", i |-> k]
            BY <3>1
          <6>2. QED
            BY <6>1
        <5>3. QED
          BY <3>1, <5>1, <5>2
      <4>4. \A i \in 1 .. Len(tasks) - Len(tasks) : FALSE
        BY <1>0
      <4>5. QED
        BY <1>0, <3>1, <3>3, <4>2, <4>3, <4>4 DEF Leaving
    <3>4. QED
      BY <3>2, <3>3
  <2>4. QED
    BY <1>3, <2>1, <2>2, <2>3, CommandForms
<1>4. CASE Programs
  <2>1. UNCHANGED <<tasks, job, life>> /\ \A b \in Apps : Gone(b) => Gone(b)'
    BY <1>4, ProgramFacts
  <2>2. \A i \in DOMAIN tasks : Stopped(i) => Stopped(i)'
    <3> SUFFICES ASSUME NEW i \in DOMAIN tasks, Stopped(i)
                 PROVE  Stopped(i)'
      OBVIOUS
    <3>1. PICK b \in Apps : b = tasks[i].app
      BY <1>0
    <3>2. Gone(b)'
      BY <2>1, <3>1 DEF Stopped
    <3>3. QED
      BY <2>1, <3>1, <3>2 DEF Stopped, Gone
  <2>3. \A i \in 1 .. Len(tasks) - Len(job.todo) : i \in DOMAIN tasks
    <3>1. Len(job.todo) \in Nat
      BY DEF Typed, TypeOK
    <3>2. QED
      BY <1>0, <3>1
  <2>4. CASE job.exits
    <3>1. \A i \in 1 .. Len(tasks) - Len(job.todo) : Stopped(i)'
      BY <2>2, <2>3, <2>4 DEF Leaving
    <3>2. QED
      BY <2>1, <2>4, <3>1 DEF Leaving, Free
  <2>5. CASE ~job.exits
    BY <2>1, <2>2, <2>5 DEF Leaving
  <2>6. QED
    BY <2>4, <2>5
<1>5. CASE Boot
  BY <1>1, <1>5, BootFacts
<1>6. CASE MonitorAll
  <2>1. /\ UNCHANGED <<tasks, proc, life>> /\ ~job'.exits
        /\ \A k \in DOMAIN job'.todo : job'.todo[k].do = "monitor"
    BY <1>6, MonitorFacts
  <2>2. QED
    BY <2>1 DEF Leaving, Stopped, Gone
<1>7. CASE Serve
  <2>1. life' = "run" /\ ~job'.exits
    BY <1>7, LifeFacts DEF Serve
  <2>2. QED
    BY <1>1, <2>1
<1>8. CASE ManagerDies
  <2>1. life' = "dead" /\ ~job'.exits
    BY <1>8, LifeFacts DEF ManagerDies
  <2>2. QED
    BY <1>1, <2>1
<1>9. CASE Exit
  <2>1. UNCHANGED <<tasks, proc>> /\ life = "exiting" /\ job' = NoJob
    BY <1>9 DEF Exit
  <2>2. ~job'.exits /\ DOMAIN job'.todo = {}
    BY <2>1 DEF NoJob
  <2>3. QED
    BY <2>1, <2>2 DEF Leaving, Stopped, Gone
<1>10. CASE UNCHANGED vars
  BY <1>10 DEF vars, Leaving, Stopped, Gone, Free
<1>11. QED
  BY <1>2, <1>3, <1>4, <1>5, <1>6, <1>7, <1>8, <1>9, <1>10 DEF Next

\* Both hold of a manager that has just come up.
LEMMA Begins == Init => Drained /\ Leaving
<1> SUFFICES ASSUME Init
             PROVE  Drained /\ Leaving
  OBVIOUS
<1> DEFINE j == Job(ForAll(LoadConf, "start"), TRUE, FALSE)
<1>1. j.at = "begin" /\ ~j.exits
  BY ConfTasks, TableJob
<1>2. job = j /\ life = "boot"
  BY DEF Init
<1> HIDE DEF j
<1>3. QED
  BY <1>1, <1>2 DEF Drained, Does, Leaving

\* What a stop and the exit command have done is done: neither the monitor nor the
\* programs undo it while the job goes on.
THEOREM StopsAreDone == Spec => [](Typed /\ Drained /\ Leaving)
<1>1. Drained /\ Leaving /\ Typed /\ [Next]_vars => (Drained /\ Leaving)'
  BY DrainedKept, LeavingKept
<1>2. QED
  BY <1>1, Begins, ManagerTypeCorrect, PTL DEF Spec

\* The exit command leaves no program of the table running, not even the second
\* of two tasks for the same one, whatever the monitor does before exit(0).
THEOREM ExitLeavesNone == Spec => []ExitStopsAll
<1>1. Leaving => ExitStopsAll
  BY DEF Leaving, Stopped, ExitStopsAll
<1>2. QED
  BY <1>1, StopsAreDone, PTL

-----------------------------------------------------------------------------
(* One instance of a program                                                *)

Single(a) == /\ proc[a].fresh + (IF proc[a].up THEN 1 ELSE 0) <= 1
             /\ proc[a].fresh > 0 => Does("start", "poll") /\ App = a

\* An instance that is still to come is the one that the job waits for.
Awaited == \A a \in Apps : a \notin astray => Single(a)

\* Where no start is being waited for, nothing is still to come.
LEMMA AwaitedStays ==
  ASSUME Typed, Awaited, ~Does("start", "poll"), UNCHANGED <<proc, astray>>
  PROVE  Awaited'
<1>1. \A a \in Apps : a \notin astray => ~(proc[a].fresh > 0)
  BY DEF Awaited, Single
<1>2. ASSUME NEW a \in Apps, a \notin astray
      PROVE  Single(a)'
  <2>1. proc[a].fresh + (IF proc[a].up THEN 1 ELSE 0) <= 1
    BY <1>2 DEF Awaited, Single
  <2>2. QED
    BY <1>1, <1>2, <2>1 DEF Single
<1>3. QED
  BY <1>2 DEF Awaited

\* A step of a job.
LEMMA AwaitedStep ==
  ASSUME Typed, Awaited, JobStep
  PROVE  Awaited'
<1>0. ~Free /\ App \in Apps /\ proc \in Procs
  BY StepEffect, NowFacts DEF Typed, TypeOK, Procs
<1>1. /\ proc[App].fresh \in Nat /\ proc[App].up \in BOOLEAN /\ proc[App].doomed \in BOOLEAN
      /\ \A b \in Apps : proc[b].fresh \in Nat
  BY <1>0, BoundAssumption DEF Procs
<1>2. \A b \in Apps : b # App => proc'[b] = proc[b]
  BY StepEffect
<1>3. CASE Launch
  <2>1. /\ Does("start", "begin") /\ ~proc[App].up
        /\ proc' = [proc EXCEPT ![App].fresh = proc[App].fresh + 1]
        /\ job' = [job EXCEPT !.at = "poll"] /\ UNCHANGED <<tasks, astray>>
    BY <1>3 DEF Launch
  <2>2. \A b \in Apps : b \notin astray => ~(proc[b].fresh > 0)
    BY <2>1 DEF Awaited, Single, Does
  <2>3. Does("start", "poll")' /\ App' = App
    BY <1>0, <2>1, MovesOn DEF Does
  <2>4. proc'[App].fresh = proc[App].fresh + 1 /\ ~proc'[App].up
    BY <1>0, <2>1 DEF Procs
  <2>5. ASSUME NEW b \in Apps, b \notin astray'
        PROVE  Single(b)'
    <3>1. CASE b = App
      <4>1. proc[App].fresh = 0
        BY <1>1, <2>1, <2>2, <2>5, <3>1
      <4>2. proc'[b].fresh = 1 /\ ~proc'[b].up
        BY <2>4, <3>1, <4>1
      <4>3. App' = b
        BY <2>3, <3>1
      <4>4. QED
        BY <2>3, <4>2, <4>3 DEF Single
    <3>2. CASE b # App
      <4>1. proc'[b] = proc[b] /\ ~(proc[b].fresh > 0)
        BY <1>2, <2>1, <2>2, <2>5, <3>2
      <4>2. proc[b].fresh + (IF proc[b].up THEN 1 ELSE 0) <= 1
        BY <2>1, <2>5 DEF Awaited, Single
      <4>3. QED
        BY <4>1, <4>2 DEF Single
    <3>3. QED
      BY <3>1, <3>2
  <2>6. QED
    BY <2>5 DEF Awaited
<1>4. CASE PollSees \/ PollGivesUp
  <2>1. UNCHANGED proc /\ astray \subseteq astray'
    BY <1>4 DEF PollSees, PollGivesUp
  <2>2. \A b \in Apps : b \notin astray' => ~(proc[b].fresh > 0)
    <3> SUFFICES ASSUME NEW b \in Apps, b \notin astray', proc[b].fresh > 0
                 PROVE  FALSE
      OBVIOUS
    <3>1. b \notin astray
      BY <2>1
    <3>2. App = b /\ proc[b].fresh + (IF proc[b].up THEN 1 ELSE 0) <= 1
      BY <3>1 DEF Awaited, Single
    <3>3. ~proc[b].up
      BY <1>1, <3>2
    <3>4. PollGivesUp
      BY <1>4, <3>2, <3>3 DEF PollSees
    <3>5. astray' = astray \cup {b}
      BY <3>2, <3>4 DEF PollGivesUp
    <3>6. QED
      BY <3>5
  <2>3. \A b \in Apps : b \notin astray' => proc[b].fresh + (IF proc[b].up THEN 1 ELSE 0) <= 1
    BY <2>1 DEF Awaited, Single
  <2>4. QED
    BY <2>1, <2>2, <2>3 DEF Awaited, Single
<1>5. CASE StopSignals \/ StopForces
  <2>1. PICK d \in BOOLEAN : proc' = [proc EXCEPT ![App].fresh = 0, ![App].doomed = d]
    <3>1. CASE StopSignals
      <4>1. PICK obeys \in BOOLEAN :
               proc' = [proc EXCEPT ![App].fresh = 0,
                                    ![App].doomed = @ \/ (obeys /\ proc[App].up)]
        BY <3>1 DEF StopSignals
      <4>2. (proc[App].doomed \/ (obeys /\ proc[App].up)) \in BOOLEAN
        OBVIOUS
      <4>3. QED
        BY <1>0, <4>1, <4>2
    <3>2. CASE StopForces
      BY <1>1, <3>2 DEF StopForces
    <3>3. QED
      BY <1>5, <3>1, <3>2
  <2>2. ~Does("start", "poll") /\ astray' = astray \ {App}
    BY <1>5 DEF StopSignals, StopForces, Does
  <2>3. proc'[App].fresh = 0 /\ proc'[App].up = proc[App].up
    BY <1>0, <2>1 DEF Procs
  <2>4. \A b \in Apps : b \notin astray => ~(proc[b].fresh > 0)
    BY <2>2 DEF Awaited, Single
  <2>5. ASSUME NEW b \in Apps, b \notin astray'
        PROVE  Single(b)'
    <3>1. CASE b = App
      <4>1. proc'[b].fresh = 0
        BY <2>3, <3>1
      <4>2. QED
        BY <4>1 DEF Single
    <3>2. CASE b # App
      <4>1. proc'[b] = proc[b] /\ b \notin astray
        BY <1>2, <2>2, <2>5, <3>2
      <4>2. proc[b].fresh + (IF proc[b].up THEN 1 ELSE 0) <= 1 /\ ~(proc[b].fresh > 0)
        BY <2>4, <4>1 DEF Awaited, Single
      <4>3. QED
        BY <4>1, <4>2 DEF Single
    <3>3. QED
      BY <3>1, <3>2
  <2>6. QED
    BY <2>5 DEF Awaited
<1>6. CASE StartFinds \/ StartFails \/ StopSees \/ MonitorSkips \/ MonitorFindsUp \/ MonitorFindsDown
  <2>1. ~Does("start", "poll") /\ UNCHANGED <<proc, astray>>
    BY <1>6 DEF StartFinds, StartFails, StopSees, MonitorSkips, MonitorFindsUp, MonitorFindsDown, Does
  <2>2. QED
    BY <2>1, AwaitedStays
<1>7. QED
  BY <1>3, <1>4, <1>5, <1>6 DEF JobStep

\* A step of a program.
LEMMA AwaitedPrograms ==
  ASSUME Typed, Awaited, Programs
  PROVE  Awaited'
<1>1. PICK a \in Apps : Appear(a) \/ Vanish(a) \/ Dies(a) \/ Crash(a)
  BY DEF Programs
<1>2. UNCHANGED <<tasks, job>>
  BY ProgramFacts
<1>3. proc \in Procs /\ proc[a].fresh \in Nat /\ proc[a].up \in BOOLEAN
  BY BoundAssumption DEF Typed, TypeOK, Procs
<1>4. /\ \A b \in Apps : b # a => proc'[b] = proc[b]
      /\ \/ /\ proc[a].fresh > 0 /\ proc'[a].fresh = proc[a].fresh - 1
            /\ (proc'[a].up = proc[a].up \/ ~proc[a].up)
            /\ astray' = IF proc'[a].fresh = 0 THEN astray \ {a} ELSE astray
         \/ /\ proc'[a].fresh = proc[a].fresh /\ ~proc'[a].up
            /\ astray' = astray
  <2>1. CASE Appear(a)
    BY <1>3, <2>1 DEF Appear, Settled, Procs
  <2>2. CASE Vanish(a)
    BY <1>3, <2>2 DEF Vanish, Settled, Procs
  <2>3. CASE Dies(a)
    BY <1>3, <2>3 DEF Dies, Procs
  <2>4. CASE Crash(a)
    BY <1>3, <2>4 DEF Crash, Procs
  <2>5. QED
    BY <1>1, <2>1, <2>2, <2>3, <2>4
<1>5. Does("start", "poll")' = Does("start", "poll") /\ App' = App
  BY <1>2 DEF Does, Now, App, Free
<1>6. ASSUME NEW b \in Apps, b \notin astray'
      PROVE  Single(b)'
  <2>1. CASE b # a
    <3>1. b \notin astray /\ proc'[b] = proc[b]
      BY <1>4, <1>6, <2>1
    <3>2. Single(b)
      BY <3>1 DEF Awaited
    <3>3. QED
      BY <1>5, <3>1, <3>2 DEF Single
  <2>2. CASE b = a /\ proc'[a].fresh = 0
    BY <2>2 DEF Single
  <2>3. CASE b = a /\ proc'[a].fresh # 0
    <3>1. a \notin astray
      BY <1>4, <1>6, <2>3
    <3>2. /\ proc[a].fresh + (IF proc[a].up THEN 1 ELSE 0) <= 1
          /\ proc[a].fresh > 0 => Does("start", "poll") /\ App = a
      BY <3>1 DEF Awaited, Single
    <3>3. proc'[a].fresh = proc[a].fresh /\ proc[a].fresh = 1 /\ ~proc'[a].up
      BY <1>3, <1>4, <2>3, <3>2
    <3>4. proc[a].fresh > 0
      BY <3>3
    <3>5. QED
      BY <1>5, <2>3, <3>2, <3>3, <3>4 DEF Single
  <2>4. QED
    BY <2>1, <2>2, <2>3
<1>7. QED
  BY <1>6 DEF Awaited

\* No step disturbs Awaited.
LEMMA AwaitedKept ==
  ASSUME Typed, Leaving, Awaited, [Next]_vars
  PROVE  Awaited'
<1>1. CASE Free /\ UNCHANGED <<proc, astray>>
  BY <1>1, AwaitedStays DEF Does
<1>2. CASE Ipc
  <2>1. ASSUME NEW t \in Seq(Step), NEW c \in BOOLEAN, Fits(t), Command(t, c, FALSE)
        PROVE  Free /\ UNCHANGED <<proc, astray>>
    BY <2>1, CommandFacts
  <2>2. QED
    BY <1>1, <1>2, <2>1, CommandForms, AddFacts, DelFacts, ExitFacts
<1>3. CASE Boot \/ MonitorAll
  BY <1>1, <1>3, BootFacts, MonitorFacts
<1>4. CASE Serve
  BY <1>1, <1>4 DEF Serve
<1>5. CASE Exit
  <2>1. UNCHANGED <<proc, astray>> /\ life = "exiting"
    BY <1>5 DEF Exit
  <2>2. ~Does("start", "poll")
    <3> SUFFICES ASSUME Does("start", "poll")
                 PROVE  FALSE
      OBVIOUS
    <3>1. ~Free /\ Now.do = "start"
      BY DEF Does
    <3>2. Now = job.todo[1] /\ Len(job.todo) \in Nat \ {0} /\ job.todo \in Seq(Step)
      BY <3>1, NowFacts DEF Typed, TypeOK
    <3>3. 1 \in DOMAIN job.todo
      BY <3>2
    <3>4. job.todo[1].do = "monitor"
      BY <2>1, <3>3 DEF Leaving
    <3>5. QED
      BY <3>1, <3>2, <3>4
  <2>3. QED
    BY <2>1, <2>2, AwaitedStays
<1>6. CASE ManagerDies
  <2>1. UNCHANGED proc /\ astray' = astray \cup Abandoned(proc)
    BY <1>6 DEF ManagerDies
  <2>2. ASSUME NEW a \in Apps, a \notin astray'
        PROVE  Single(a)'
    <3>1. a \notin astray /\ ~(proc[a].fresh > 0)
      BY <2>1, <2>2 DEF Abandoned
    <3>2. proc[a].fresh + (IF proc[a].up THEN 1 ELSE 0) <= 1
      BY <3>1 DEF Awaited, Single
    <3>3. QED
      BY <2>1, <3>1, <3>2 DEF Single
  <2>3. QED
    BY <2>2 DEF Awaited
<1>7. CASE UNCHANGED vars
  BY <1>7 DEF vars, Awaited, Single, Does, Now, App, Free
<1>8. QED
  BY <1>2, <1>3, <1>4, <1>5, <1>6, <1>7, AwaitedStep, AwaitedPrograms DEF Next

\* No second instance of a program is launched, unless an earlier start was given
\* up, or the manager died, while its instance had not come up yet.
THEOREM NoSecondInstance == Spec => []OneInstance
<1>1. Init => Awaited
  <2> SUFFICES ASSUME Init, NEW a \in Apps
               PROVE  Single(a)
    BY DEF Awaited
  <2>1. proc[a].fresh = 0 /\ ~proc[a].up
    BY DEF Init, Down
  <2>2. QED
    BY <2>1 DEF Single
<1>2. Typed /\ Leaving /\ Awaited /\ [Next]_vars => Awaited'
  BY AwaitedKept
<1>3. Awaited => OneInstance
  BY DEF Awaited, Single, OneInstance
<1>4. QED
  BY <1>1, <1>2, <1>3, StopsAreDone, PTL DEF Spec

-----------------------------------------------------------------------------
(* A stop lasts                                                             *)

\* Of two tasks with one name the name is known to be a twin.
TwinsKnown == TwinsOf(tasks) \subseteq twins

\* A step of a job, of the task it is for and of the others.
LEMMA Sticky ==
  ASSUME Typed, TwinsKnown, Drained, StopSticks, JobStep
  PROVE  StopSticks'
<1>0. /\ ~Free /\ App \in Apps /\ App = tasks[Now.i].app /\ Now.i \in DOMAIN tasks
      /\ tasks \in Seq(Task) /\ life # "dead" /\ Now \in Step
  BY StepEffect, NowFacts DEF Typed, TypeOK, Idle
<1>1. /\ DOMAIN tasks' = DOMAIN tasks
      /\ \A k \in DOMAIN tasks : k # Now.i => tasks'[k] = tasks[k]
      /\ \A k \in DOMAIN tasks : tasks'[k].app = tasks[k].app
      /\ \A b \in Apps : b # App => proc'[b] = proc[b]
      /\ Now.do # "start" => \A b \in Apps : Gone(b) => Gone(b)'
      /\ UNCHANGED twins
  BY StepEffect
<1>2. \A k \in DOMAIN tasks : tasks[k].app \in Apps
  <2>1. \A k \in DOMAIN tasks : tasks[k] \in Task
    BY <1>0
  <2>2. QED
    BY <2>1 DEF Task
<1>3. \A k \in DOMAIN tasks : k # Now.i /\ tasks[k].app \notin twins => tasks[k].app # App
  <2>1. ASSUME NEW k \in DOMAIN tasks, k # Now.i, tasks[k].app = App
        PROVE  App \in twins
    BY <1>0, <2>1 DEF TwinsKnown, TwinsOf
  <2>2. QED
    BY <2>1
\* What holds of the other tasks.
<1>4. ASSUME NEW k \in DOMAIN tasks, k # Now.i, tasks'[k].st = "stoped", tasks'[k].app \notin twins
      PROVE  Gone(tasks[k].app)'
  <2>1. tasks'[k] = tasks[k] /\ tasks[k].app # App
    BY <1>1, <1>3, <1>4
  <2>2. ~Starting(k)
    BY <1>4 DEF Starting
  <2>3. Gone(tasks[k].app)
    BY <1>0, <1>4, <2>1, <2>2 DEF StopSticks
  <2>4. PICK b \in Apps : b = tasks[k].app
    BY <1>2
  <2>5. proc'[b] = proc[b]
    BY <1>1, <2>1, <2>4
  <2>6. QED
    BY <2>1, <2>3, <2>4, <2>5 DEF Gone
<1>5. PICK n \in DOMAIN tasks, p \in Apps : n = Now.i /\ p = App
  BY <1>0
\* And of the task of the step.
<1>6. ASSUME tasks'[n].st = "stoped", tasks'[n].app \notin twins, ~Starting(n)'
      PROVE  Gone(p)'
  <2>1. CASE StopSees \/ StopForces
    <3>1. proc'[App].fresh = 0 /\ (proc'[App].up => proc'[App].doomed)
      BY <2>1, StopEnds
    <3>2. QED
      BY <1>5, <3>1 DEF Gone
  <2>2. CASE StopSignals \/ MonitorSkips
    <3>1. UNCHANGED tasks /\ Now.do # "start"
      BY <2>2 DEF StopSignals, MonitorSkips, Does
    <3>2. ~Starting(n)
      BY <3>1 DEF Starting
    <3>3. tasks[n].app = p
      BY <1>0, <1>5
    <3>4. Gone(p)
      BY <1>0, <1>6, <3>1, <3>2, <3>3 DEF StopSticks
    <3>5. QED
      BY <1>1, <3>1, <3>4
  <2>3. CASE Launch
    <3>1. Now' = Now /\ ~Free' /\ Now.do = "start"
      BY <1>0, <2>3, MovesOn DEF Launch, Does
    <3>2. Now = [do |-> "start", i |-> n]
      BY <1>0, <1>5, <3>1 DEF Step
    <3>3. QED
      BY <1>6, <3>1, <3>2 DEF Starting
  <2>4. ASSUME NEW st \in TaskStates \ {"stoped"}, Is(st)
        PROVE  FALSE
    <3>1. tasks'[Now.i] = [app |-> App, st |-> st]
      BY <1>0, <2>4, IsFacts
    <3>2. QED
      BY <1>5, <1>6, <2>4, <3>1
  <2>5. QED
    BY <2>1, <2>2, <2>3, <2>4 DEF JobStep, StartFinds, StartFails, PollSees, PollGivesUp,
       MonitorFindsUp, MonitorFindsDown, TaskStates
<1>7. ASSUME NEW i \in DOMAIN tasks',
             tasks'[i].st = "stoped", tasks'[i].app \notin twins', ~Starting(i)'
      PROVE  Gone(tasks[i].app)'
  <2>1. CASE i = n
    <3>1. tasks'[n].app = p
      BY <1>0, <1>1, <1>5
    <3>2. Gone(p)'
      BY <1>1, <1>6, <1>7, <2>1
    <3>3. QED
      BY <2>1, <3>1, <3>2 DEF Gone
  <2>2. CASE i # n
    BY <1>1, <1>4, <1>5, <1>7, <2>2
  <2>3. QED
    BY <2>1, <2>2
<1>8. QED
  BY <1>7 DEF StopSticks, Gone

\* Add is the only operation that makes twins.
LEMMA TwinsKept ==
  ASSUME Typed, TwinsKnown, [Next]_vars
  PROVE  TwinsKnown'
<1>0. tasks \in Seq(Task) /\ tasks' \in Seq(Task)
  BY StepTyped DEF Typed, TypeOK
<1>1. CASE UNCHANGED <<tasks, twins>>
  BY <1>1 DEF TwinsKnown, TwinsOf
<1>2. CASE JobStep
  <2>1. /\ UNCHANGED twins /\ DOMAIN tasks' = DOMAIN tasks
        /\ \A k \in DOMAIN tasks : tasks'[k].app = tasks[k].app
    BY <1>2, StepEffect
  <2>2. QED
    BY <2>1 DEF TwinsKnown, TwinsOf
<1>3. CASE Ipc
  <2>1. ASSUME NEW a \in Apps, Add(a)
        PROVE  TwinsKnown'
    BY <2>1, AddFacts DEF TwinsKnown
  <2>2. ASSUME NEW a \in Apps, Del(a)
        PROVE  TwinsKnown'
    <3>1. PICK i \in DOMAIN tasks :
             /\ Len(tasks') = Len(tasks) - 1
             /\ \A j \in DOMAIN tasks' : tasks'[j] = tasks[IF j < i THEN j ELSE j + 1]
      BY <2>2, DelFacts
    <3>2. UNCHANGED twins
      BY <2>2, DelFacts
    <3> DEFINE old(j) == IF j < i THEN j ELSE j + 1
    <3>3. \A j \in DOMAIN tasks' : old(j) \in DOMAIN tasks /\ tasks'[j] = tasks[old(j)]
      BY <1>0, <3>1
    <3>4. \A j, k \in DOMAIN tasks' : j # k => old(j) # old(k)
      BY <1>0
    <3> HIDE DEF old
    <3>5. TwinsOf(tasks') \subseteq TwinsOf(tasks)
      <4> SUFFICES ASSUME NEW b \in Apps, NEW j \in DOMAIN tasks', NEW k \in DOMAIN tasks',
                          j # k, tasks'[j].app = b, tasks'[k].app = b
                   PROVE  b \in TwinsOf(tasks)
        BY DEF TwinsOf
      <4>1. /\ old(j) \in DOMAIN tasks /\ old(k) \in DOMAIN tasks /\ old(j) # old(k)
            /\ tasks[old(j)].app = b /\ tasks[old(k)].app = b
        BY <3>3, <3>4
      <4>2. QED
        BY <4>1 DEF TwinsOf
    <3>6. QED
      BY <3>2, <3>5 DEF TwinsKnown
  <2>3. ASSUME NEW t \in Seq(Step), NEW c \in BOOLEAN, Fits(t), Command(t, c, FALSE)
        PROVE  TwinsKnown'
    BY <1>1, <2>3, CommandFacts
  <2>4. QED
    BY <1>1, <1>3, <2>1, <2>2, <2>3, CommandForms, ExitFacts
<1>4. CASE Boot
  BY <1>4, BootFacts DEF TwinsKnown
<1>5. CASE Serve \/ Exit \/ ManagerDies
  BY <1>1, <1>5 DEF Serve, Exit, ManagerDies
<1>6. QED
  BY <1>1, <1>2, <1>3, <1>4, <1>5, MonitorFacts, ProgramFacts DEF Next, vars

\* No step brings a stopped program back.
LEMMA StickyKept ==
  ASSUME Typed, TwinsKnown, Drained, Leaving, StopSticks, [Next]_vars
  PROVE  StopSticks'
<1>0. tasks \in Seq(Task) /\ \A k \in DOMAIN tasks : tasks[k].app \in Apps
  <2>1. tasks \in Seq(Task)
    BY DEF Typed, TypeOK
  <2>2. \A k \in DOMAIN tasks : tasks[k] \in Task
    BY <2>1
  <2>3. QED
    BY <2>1, <2>2 DEF Task
<1>1. CASE life # "dead" /\ Free /\ UNCHANGED <<tasks, proc>> /\ twins \subseteq twins'
  BY <1>1 DEF StopSticks, Starting, Gone
<1>2. CASE Ipc
  <2>1. ASSUME NEW a \in Apps, Add(a)
        PROVE  StopSticks'
    <3>1. /\ Free /\ life = "run" /\ UNCHANGED proc /\ twins \subseteq twins'
          /\ Len(tasks') = Len(tasks) + 1 /\ Len(tasks) \in Nat
          /\ \A j \in DOMAIN tasks : tasks'[j] = tasks[j]
          /\ tasks'[Len(tasks) + 1].st = "min"
      BY <2>1, AddFacts
    <3>2. tasks' \in Seq(Task)
      BY StepTyped DEF Typed, TypeOK
    <3>3. \A j \in DOMAIN tasks' : j \in DOMAIN tasks \/ j = Len(tasks) + 1
      BY <1>0, <3>1, <3>2
    <3>4. ASSUME NEW j \in DOMAIN tasks', tasks'[j].st = "stoped", tasks'[j].app \notin twins'
          PROVE  Gone(tasks[j].app)'
      <4>1. j \in DOMAIN tasks /\ tasks'[j] = tasks[j] /\ tasks[j].app \notin twins
        BY <3>1, <3>3, <3>4
      <4>2. Gone(tasks[j].app)
        BY <3>1, <3>4, <4>1 DEF StopSticks, Starting
      <4>3. QED
        BY <3>1, <4>1, <4>2 DEF Gone
    <3>5. QED
      BY <3>4 DEF StopSticks, Gone
  <2>2. ASSUME NEW a \in Apps, Del(a)
        PROVE  StopSticks'
    <3>1. Free /\ life = "run" /\ UNCHANGED <<proc, twins>>
      BY <2>2, DelFacts
    <3>2. PICK i \in DOMAIN tasks :
             /\ Len(tasks') = Len(tasks) - 1
             /\ \A j \in DOMAIN tasks' : tasks'[j] = tasks[IF j < i THEN j ELSE j + 1]
      BY <2>2, DelFacts
    <3>3. tasks' \in Seq(Task)
      BY StepTyped DEF Typed, TypeOK
    <3>4. ASSUME NEW j \in DOMAIN tasks', tasks'[j].st = "stoped", tasks'[j].app \notin twins'
          PROVE  Gone(tasks[j].app)'
      <4>1. PICK k \in DOMAIN tasks : tasks'[j] = tasks[k]
        <5>1. (IF j < i THEN j ELSE j + 1) \in DOMAIN tasks
          BY <1>0, <3>2, <3>3
        <5>2. QED
          BY <3>2, <5>1
      <4>2. Gone(tasks[k].app)
        BY <3>1, <3>4, <4>1 DEF StopSticks, Starting
      <4>3. QED
        BY <3>1, <4>1, <4>2 DEF Gone
    <3>5. QED
      BY <3>4 DEF StopSticks, Gone
  <2>3. ASSUME NEW t \in Seq(Step), NEW c \in BOOLEAN, Fits(t), Command(t, c, FALSE)
        PROVE  StopSticks'
    BY <1>1, <2>3, CommandFacts
  <2>4. CASE ExitCmd
    BY <1>1, <2>4, ExitFacts
  <2>5. QED
    BY <1>2, <2>1, <2>2, <2>3, <2>4, CommandForms
<1>3. CASE Programs
  <2>1. UNCHANGED <<tasks, job, life, twins>> /\ \A b \in Apps : Gone(b) => Gone(b)'
    BY <1>3, ProgramFacts
  <2>2. ASSUME NEW i \in DOMAIN tasks, life # "dead", tasks[i].st = "stoped",
               tasks[i].app \notin twins, ~Starting(i)
        PROVE  Gone(tasks[i].app)'
    <3>1. PICK b \in Apps : b = tasks[i].app
      BY <1>0
    <3>2. Gone(b)'
      BY <2>1, <2>2, <3>1 DEF StopSticks
    <3>3. QED
      BY <2>1, <3>1, <3>2 DEF Gone
  <2>3. \A i \in DOMAIN tasks : Starting(i)' = Starting(i)
    BY <2>1 DEF Starting, Now, Free
  <2>4. QED
    BY <2>1, <2>2, <2>3 DEF StopSticks, Gone
<1>4. CASE Boot
  <2>1. \A k \in DOMAIN tasks' : tasks'[k].st = "min"
    BY <1>4, BootFacts
  <2>2. QED
    BY <2>1 DEF StopSticks
<1>5. CASE MonitorAll
  <2>1. Free /\ UNCHANGED <<tasks, proc, twins>> /\ life # "dead"
    BY <1>5, MonitorFacts DEF MonitorAll
  <2>2. QED
    BY <1>1, <2>1
<1>6. CASE Serve
  BY <1>1, <1>6 DEF Serve
<1>7. CASE Exit
  <2>1. life = "exiting" /\ UNCHANGED <<tasks, proc>>
    BY <1>7 DEF Exit
  <2>2. QED
    BY <2>1 DEF Leaving, Stopped, StopSticks, Gone
<1>8. CASE ManagerDies
  BY <1>8 DEF ManagerDies, StopSticks
<1>9. CASE UNCHANGED vars
  BY <1>9 DEF vars, StopSticks, Starting, Now, Free, Gone
<1>10. QED
  BY <1>2, <1>3, <1>4, <1>5, <1>6, <1>7, <1>8, <1>9, Sticky DEF Next

\* A program that was stopped stays down: neither the monitor, nor a command for
\* another program, nor a late instance of an earlier start brings it back,
\* unless its name is in the table twice.
THEOREM StoppedStaysDown == Spec => []StopSticks
<1>1. Init => TwinsKnown /\ StopSticks
  <2> SUFFICES ASSUME Init
               PROVE  TwinsKnown /\ StopSticks
    OBVIOUS
  <2>1. tasks = LoadConf /\ twins = TwinsOf(LoadConf)
    BY DEF Init
  <2>2. \A k \in DOMAIN tasks : tasks[k].st = "min"
    BY <2>1, ConfTasks
  <2>3. QED
    BY <2>1, <2>2 DEF TwinsKnown, StopSticks
<1>2. Typed /\ Drained /\ Leaving /\ TwinsKnown /\ StopSticks /\ [Next]_vars
         => (TwinsKnown /\ StopSticks)'
  BY TwinsKept, StickyKept
<1>3. QED
  BY <1>1, <1>2, StopsAreDone, PTL DEF Spec

\* For any programs and configuration: a stop and the exit command last, and no
\* program runs twice, however commands, monitor and crashes interleave.
THEOREM SupervisionHolds == Spec => []Supervises
<1>1. StopSticks /\ OneInstance /\ ExitStopsAll => Supervises
  BY DEF Supervises
<1>2. QED
  BY <1>1, StoppedStaysDown, NoSecondInstance, ExitLeavesNone, PTL

-----------------------------------------------------------------------------
(* SockServ                                                                 *)

\* What a descriptor may stand for, where a handler and the main loop may be.
HttpUses == {S!Nobody} \cup {S!Sock(c) : c \in S!Conns} \cup {S!File(c) : c \in S!Conns}
HttpPcs == {"idle", "recv", "text", "open", "stream", "close", "reset", "done"}
HttpMain == [at : {"select", "reap", "reset", "join", "exited"}, who : SUBSET S!Conns]

\* The types, one conjunct each, and what every descriptor stands for.
HttpTypes ==
  /\ peer \in [S!Conns -> {"away", "queued", "open", "sent", "gone"}]
  /\ want \in [S!Conns -> S!Requests] /\ cl \in [S!Conns -> S!Object]
  /\ clients \in Seq(S!Conns) /\ file \in [S!Conns -> {0} \cup S!Fds]
  /\ pc \in [S!Conns -> HttpPcs]
  /\ fdt \in [S!Fds -> HttpUses]
  /\ readfds \subseteq S!Fds /\ crossed \in BOOLEAN /\ foreign \in BOOLEAN
  /\ main \in HttpMain

\* How far a client and its handler are; the list has the live ones.
HttpStage(c) ==
  /\ peer[c] \in {"away", "queued"} => cl[c].st = "none"
  /\ cl[c].st \in {"none", "waiting"} <=> pc[c] = "idle"
  /\ cl[c].st = "waiting" => cl[c].fd \in S!Fds
  /\ cl[c].st = "finish" => pc[c] \in {"close", "reset", "done"}
  /\ cl[c].st = "deleted" => pc[c] = "done"
  /\ pc[c] = "done" => cl[c].st \in {"finish", "deleted"}
  /\ pc[c] = "stream" => file[c] \in S!Fds
  /\ (cl[c].st \in {"waiting", "start", "finish"}) <=> S!Contains(clients, c)

\* All the clients, the list without doubles, and the client that is deleted.
HttpStages ==
  /\ \A c \in S!Conns : HttpStage(c)
  /\ \A i, j \in 1 .. Len(clients) : clients[i] = clients[j] => i = j
  /\ main.at \in {"reset", "join"} => \E c \in S!Conns : main.who = {c} /\ cl[c].st = "finish"

\* What a client owns, until Stop() meets a handler that is still closing.
HttpOwn(c) ==
  /\ cl[c].st = "waiting" => fdt[cl[c].fd] = S!Sock(c)
  /\ pc[c] \in {"recv", "text", "open", "stream", "close"} =>
       cl[c].fd \in S!Fds /\ fdt[cl[c].fd] = S!Sock(c)
  /\ pc[c] = "stream" => fdt[file[c]] = S!File(c)
  /\ (cl[c].st = "finish" /\ pc[c] = "done" /\ ~(main.at = "reset" /\ main.who = {c})) =>
       cl[c].fd = -1 \/ (cl[c].fd \in S!Fds /\ fdt[cl[c].fd] = S!Sock(c))
  /\ (main.at \in {"reset", "join"} /\ c \in main.who) => pc[c] = "done"

\* All of them, and what is selected.
HttpOwns ==
  ~crossed =>
    /\ \A c \in S!Conns : HttpOwn(c)
    /\ readfds = {cl[c].fd : c \in {d \in S!Conns : cl[d].st = "waiting"}}
    /\ main.at # "exited"
    /\ ~foreign

\* The uses of a descriptor are told apart.
LEMMA HttpUsesDiffer ==
  /\ \A c \in S!Conns : S!Sock(c) # S!Nobody /\ S!File(c) # S!Nobody
  /\ \A c, d \in S!Conns : S!Sock(c) # S!File(d) /\ (S!Sock(c) = S!Sock(d) => c = d)
                           /\ (S!File(c) = S!File(d) => c = d)
  /\ \A c \in S!Conns : S!Sock(c) \in HttpUses /\ S!File(c) \in HttpUses
  /\ S!Nobody \in HttpUses
<1>1. \A c \in S!Conns : S!Sock(c) # S!Nobody /\ S!File(c) # S!Nobody
  BY DEF S!Sock, S!File, S!Nobody
<1>2. \A c, d \in S!Conns : S!Sock(c) # S!File(d)
  BY DEF S!Sock, S!File
<1>3. \A c, d \in S!Conns : (S!Sock(c) = S!Sock(d) => c = d) /\ (S!File(c) = S!File(d) => c = d)
  BY DEF S!Sock, S!File
<1>4. QED
  BY <1>1, <1>2, <1>3 DEF HttpUses

\* The descriptor that the kernel hands out is a free one.
LEMMA LowestIsFree ==
  ASSUME S!HasRoom
  PROVE  S!Lowest \in S!Fds /\ fdt[S!Lowest] = S!Nobody
<1>1. S!FreeFds \in SUBSET Nat /\ S!FreeFds # {}
  BY DEF S!HasRoom, S!FreeFds, S!Fds
<1>2. S!Min(S!FreeFds) = Min(S!FreeFds)
  BY DEF S!Min, Min
<1>3. S!Lowest \in S!FreeFds
  BY <1>1, <1>2, HasMin DEF S!Lowest
<1>4. QED
  BY <1>3 DEF S!FreeFds

\* The one that is deleted is a finished client of the list.
LEMMA FirstFinished ==
  ASSUME S!Finished # {}, HttpTypes
  PROVE  LET c == clients[S!Min(S!Finished)] IN c \in S!Conns /\ cl[c].st = "finish"
<1>1. S!Finished \in SUBSET Nat /\ \A k \in S!Finished : k \in 1 .. Len(clients)
  BY DEF S!Finished, HttpTypes
<1>2. S!Min(S!Finished) = Min(S!Finished)
  BY DEF S!Min, Min
<1>3. S!Min(S!Finished) \in S!Finished
  BY <1>1, <1>2, HasMin
<1>4. QED
  BY <1>1, <1>3 DEF S!Finished, HttpTypes

\* Erasing a client from the list takes it out, and the others stay.
LEMMA Erased ==
  ASSUME NEW C, NEW s \in Seq(C), NEW c \in C, S!Contains(s, c),
         \A i, j \in 1 .. Len(s) : s[i] = s[j] => i = j
  PROVE  /\ S!RemoveFirst(s, c) \in Seq(C)
         /\ \A d \in C : S!Contains(S!RemoveFirst(s, c), d) <=> S!Contains(s, d) /\ d # c
         /\ \A i, j \in 1 .. Len(S!RemoveFirst(s, c)) :
              S!RemoveFirst(s, c)[i] = S!RemoveFirst(s, c)[j] => i = j
<1> DEFINE I == {i \in 1 .. Len(s) : s[i] = c}
           k == S!Min(I)
           r == S!RemoveAt(s, k)
<1>1. I # {} /\ I \in SUBSET Nat
  BY DEF S!Contains
<1>2. k \in 1 .. Len(s) /\ s[k] = c
  <2> HIDE DEF I
  <2>1. S!Min(I) = Min(I)
    BY DEF S!Min, Min
  <2>2. S!Min(I) \in I
    BY <1>1, <2>1, HasMin
  <2>3. QED
    BY <2>2 DEF I
<1>3. S!RemoveFirst(s, c) = r
  <2>1. S!SelectInSeq(s, LAMBDA v : v = c) = k
    BY <1>1 DEF S!SelectInSeq
  <2>2. \E i \in 1 .. Len(s) : s[i] = c
    BY <1>2
  <2>3. QED
    BY <2>1, <2>2 DEF S!RemoveFirst
<1>4. r = RemoveAt(s, k)
  BY DEF S!RemoveAt, RemoveAt
<1> HIDE DEF r, k, I
<1>5. /\ r \in Seq(C) /\ Len(s) \in Nat /\ Len(r) = Len(s) - 1
      /\ \A i \in 1 .. Len(s) - 1 : r[i] = s[IF i < k THEN i ELSE i + 1]
  BY <1>2, <1>4, RemoveFacts
<1>6. ASSUME NEW d \in C, S!Contains(r, d)
      PROVE  S!Contains(s, d) /\ d # c
  <2>1. PICK i \in 1 .. Len(s) - 1 : r[i] = d
    BY <1>5, <1>6 DEF S!Contains
  <2> DEFINE j == IF i < k THEN i ELSE i + 1
  <2>2. j \in 1 .. Len(s) /\ j # k
    BY <1>2, <1>5
  <2>3. s[j] = d
    BY <1>5, <2>1
  <2> HIDE DEF j
  <2>4. QED
    BY <1>2, <2>2, <2>3 DEF S!Contains
<1>7. ASSUME NEW d \in C, S!Contains(s, d), d # c
      PROVE  S!Contains(r, d)
  <2>1. PICK i \in 1 .. Len(s) : s[i] = d
    BY <1>7 DEF S!Contains
  <2>2. i # k
    BY <1>2, <1>7, <2>1
  <2> DEFINE j == IF i < k THEN i ELSE i - 1
  <2>3. j \in 1 .. Len(s) - 1 /\ (IF j < k THEN j ELSE j + 1) = i
    BY <1>2, <1>5, <2>2
  <2> HIDE DEF j
  <2>4. r[j] = d
    BY <1>5, <2>1, <2>3
  <2>5. QED
    BY <1>5, <2>3, <2>4 DEF S!Contains
<1>8. ASSUME NEW i \in 1 .. Len(r), NEW j \in 1 .. Len(r), r[i] = r[j]
      PROVE  i = j
  <2> DEFINE x == IF i < k THEN i ELSE i + 1
             y == IF j < k THEN j ELSE j + 1
  <2>1. x \in 1 .. Len(s) /\ y \in 1 .. Len(s)
    BY <1>2, <1>5
  <2>2. s[x] = s[y]
    BY <1>5, <1>8
  <2>3. x = y
    BY <2>1, <2>2
  <2>4. QED
    BY <1>2, <1>5, <2>3
<1>9. QED
  BY <1>3, <1>5, <1>6, <1>7, <1>8

\* A step keeps the types.
LEMMA HttpTypeStep ==
  ASSUME S!FdBounds, HttpTypes, HttpStages, [S!Next]_http
  PROVE  HttpTypes'
<1>0. /\ peer \in [S!Conns -> {"away", "queued", "open", "sent", "gone"}]
      /\ want \in [S!Conns -> S!Requests] /\ cl \in [S!Conns -> S!Object]
      /\ clients \in Seq(S!Conns) /\ file \in [S!Conns -> {0} \cup S!Fds]
      /\ pc \in [S!Conns -> HttpPcs] /\ fdt \in [S!Fds -> HttpUses]
      /\ readfds \subseteq S!Fds /\ crossed \in BOOLEAN /\ foreign \in BOOLEAN /\ main \in HttpMain
  BY DEF HttpTypes
<1>a. S!Nobody \in HttpUses /\ \A c \in S!Conns : S!Sock(c) \in HttpUses /\ S!File(c) \in HttpUses
  BY HttpUsesDiffer
<1>b. ASSUME NEW c \in S!Conns, S!CloseSocket(c), cl[c].fd # -1
      PROVE  fdt' \in [S!Fds -> HttpUses] /\ foreign' \in BOOLEAN
  BY <1>0, <1>a, <1>b DEF S!CloseSocket, S!Closed
<1>c. \A c \in S!Conns, x \in {"start", "finish", "deleted"} : [cl EXCEPT ![c].st = x] \in [S!Conns -> S!Object]
  BY <1>0 DEF S!Object
<1>d. ASSUME NEW c \in S!Conns, NEW x \in HttpPcs
      PROVE  [pc EXCEPT ![c] = x] \in [S!Conns -> HttpPcs]
  BY <1>0
<1>e. \A x \in {"select", "reap", "reset", "join", "exited"} : [main EXCEPT !.at = x] \in HttpMain
  BY <1>0 DEF HttpMain
<1>f. {"close", "done", "recv", "text", "open", "stream", "reset"} \subseteq HttpPcs
  BY DEF HttpPcs
<1>1. ASSUME NEW c \in S!Conns, S!Peers(c)
      PROVE  HttpTypes'
  BY <1>0, <1>1 DEF S!Peers, S!Connect, S!Request, S!Hangup, S!Local, HttpTypes
<1>2. CASE S!Accept
  <2>1. S!Lowest \in S!Fds
    BY <1>2, LowestIsFree DEF S!Accept
  <2>2. PICK c \in S!Conns :
           /\ peer' = [peer EXCEPT ![c] = "open"]
           /\ cl' = [cl EXCEPT ![c] = [st |-> "waiting", fd |-> S!Lowest]]
           /\ clients' = Append(clients, c)
           /\ fdt' = [fdt EXCEPT ![S!Lowest] = S!Sock(c)]
    BY <1>2 DEF S!Accept, S!Queued
  <2>3. readfds' = readfds \cup {S!Lowest} /\ UNCHANGED <<want, pc, file, main, crossed, foreign>>
    BY <1>2 DEF S!Accept
  <2>4. cl' \in [S!Conns -> S!Object]
    BY <1>0, <2>1, <2>2 DEF S!Object
  <2>5. fdt' \in [S!Fds -> HttpUses]
    BY <1>0, <1>a, <2>2
  <2>6. peer' \in [S!Conns -> {"away", "queued", "open", "sent", "gone"}] /\ clients' \in Seq(S!Conns)
    BY <1>0, <2>2
  <2>7. QED
    BY <1>0, <2>1, <2>3, <2>4, <2>5, <2>6 DEF HttpTypes
<1>3. CASE S!SelectFails
  BY <1>0, <1>3, <1>e DEF S!SelectFails, HttpTypes
<1>4. CASE S!HandleWaiting
  <2>1. main' \in HttpMain /\ UNCHANGED <<peer, want, clients, file, fdt, crossed, foreign>>
    BY <1>4, <1>e DEF S!HandleWaiting, S!HandleDue
  <2>2. cl' \in [S!Conns -> S!Object]
    BY <1>0, <1>4, <1>c DEF S!HandleWaiting, S!HandleDue, S!Object
  <2>3. pc' \in [S!Conns -> HttpPcs] /\ readfds' \subseteq S!Fds
    BY <1>0, <1>4, <1>f DEF S!HandleWaiting, S!HandleDue
  <2>4. QED
    BY <1>0, <2>1, <2>2, <2>3 DEF HttpTypes
<1>5. CASE S!ReapStop
  <2> DEFINE c == clients[S!Min(S!Finished)]
  <2>1. c \in S!Conns
    BY <1>5, FirstFinished DEF S!ReapStop
  <2>2. /\ crossed' = (crossed \/ pc[c] # "done") /\ main' = [at |-> "reset", who |-> {c}]
        /\ IF cl[c].fd = -1 THEN UNCHANGED <<fdt, foreign>> ELSE S!CloseSocket(c)
        /\ UNCHANGED <<peer, want, cl, clients, pc, file, readfds>>
    BY <1>5 DEF S!ReapStop
  <2> HIDE DEF c
  <2>3. fdt' \in [S!Fds -> HttpUses] /\ foreign' \in BOOLEAN
    BY <1>0, <1>b, <2>1, <2>2
  <2>4. main' \in HttpMain /\ crossed' \in BOOLEAN
    BY <1>0, <2>1, <2>2 DEF HttpMain
  <2>5. QED
    BY <1>0, <2>2, <2>3, <2>4 DEF HttpTypes
<1>6. ASSUME NEW c \in S!Conns, S!ReapReset(c)
      PROVE  HttpTypes'
  <2>1. cl' \in [S!Conns -> S!Object]
    BY <1>0, <1>6 DEF S!ReapReset, S!Object
  <2>2. QED
    BY <1>0, <1>6, <1>e, <2>1 DEF S!ReapReset, HttpTypes
<1>7. ASSUME NEW c \in S!Conns, S!ReapJoin(c)
      PROVE  HttpTypes'
  <2>1. main.who = {c} /\ main.at = "join"
    BY <1>7 DEF S!ReapJoin
  <2>2. cl[c].st = "finish"
    BY <2>1 DEF HttpStages
  <2>3. S!Contains(clients, c)
    BY <2>2 DEF HttpStages, HttpStage
  <2>4. clients' \in Seq(S!Conns)
    BY <1>0, <1>7, <2>3, Erased DEF S!ReapJoin, HttpStages
  <2>5. main' \in HttpMain /\ cl' \in [S!Conns -> S!Object]
    BY <1>7, <1>c DEF S!ReapJoin, HttpMain
  <2>6. QED
    BY <1>0, <1>7, <2>4, <2>5 DEF S!ReapJoin, HttpTypes
<1>8. CASE S!ReapEnds
  BY <1>0, <1>8, <1>e DEF S!ReapEnds, HttpTypes
<1>9. ASSUME NEW c \in S!Conns, S!Handler(c)
      PROVE  HttpTypes'
  <2>1. S!Quiet
    BY <1>9 DEF S!Handler, S!RecvRequest, S!RecvFails, S!Answered, S!OpenFile, S!OpenFails,
                S!StreamEnds, S!StreamLosesPeer, S!HandlerCloses, S!HandlerResets
  <2>2. pc' \in [S!Conns -> HttpPcs]
    <3>1. \E x \in HttpPcs : pc' = [pc EXCEPT ![c] = x]
      BY <1>9, <1>f DEF S!Handler, S!RecvRequest, S!RecvFails, S!Answered, S!OpenFile, S!OpenFails,
                S!StreamEnds, S!StreamLosesPeer, S!HandlerCloses, S!HandlerResets, S!Ended, S!Closing
    <3>2. QED
      BY <1>d, <3>1
  <2>3. cl' \in [S!Conns -> S!Object]
    <3>1. CASE S!HandlerResets(c)
      BY <1>0, <3>1 DEF S!HandlerResets, S!Object
    <3>2. CASE ~S!HandlerResets(c)
      <4>1. cl' = cl \/ cl' = [cl EXCEPT ![c].st = "finish"]
        BY <1>9, <3>2 DEF S!Handler, S!RecvRequest, S!RecvFails, S!Answered, S!OpenFile, S!OpenFails,
                S!StreamEnds, S!StreamLosesPeer, S!HandlerCloses, S!Ended, S!Closing
      <4>2. QED
        BY <1>0, <1>c, <4>1
    <3>3. QED
      BY <3>1, <3>2
  <2>4. file' \in [S!Conns -> {0} \cup S!Fds]
    <3>1. CASE S!OpenFile(c)
      <4>1. S!Lowest \in S!Fds
        BY <3>1, LowestIsFree DEF S!OpenFile
      <4>2. QED
        BY <1>0, <3>1, <4>1 DEF S!OpenFile
    <3>2. CASE ~S!OpenFile(c)
      BY <1>0, <1>9, <3>2 DEF S!Handler, S!RecvRequest, S!RecvFails, S!Answered, S!OpenFails,
                S!StreamEnds, S!StreamLosesPeer, S!HandlerCloses, S!HandlerResets, S!None
    <3>3. QED
      BY <3>1, <3>2
  <2>5. fdt' \in [S!Fds -> HttpUses] /\ foreign' \in BOOLEAN
    <3>1. CASE S!HandlerCloses(c)
      BY <1>0, <1>b, <3>1 DEF S!HandlerCloses
    <3>2. CASE S!OpenFile(c)
      <4>1. fdt' = [fdt EXCEPT ![S!Lowest] = S!File(c)] /\ foreign' = foreign
        BY <3>2 DEF S!OpenFile
      <4>2. QED
        BY <1>0, <1>a, <4>1
    <3>3. CASE S!StreamLosesPeer(c)
      <4>1. \/ UNCHANGED <<fdt, foreign>>
            \/ /\ fdt' = [fdt EXCEPT ![file[c]] = S!Nobody]
               /\ foreign' = (foreign \/ fdt[file[c]] \notin {S!File(c), S!Nobody})
        BY <3>3 DEF S!StreamLosesPeer, S!Closed
      <4>2. fdt \in [S!Fds -> HttpUses] /\ S!Nobody \in HttpUses
        BY <1>0, <1>a
      <4>3. fdt' \in [S!Fds -> HttpUses]
        <5>1. fdt' = fdt \/ fdt' = [fdt EXCEPT ![file[c]] = S!Nobody]
          BY <4>1
        <5>2. QED
          BY <4>2, <5>1
      <4>4. foreign' \in BOOLEAN
        BY <1>0, <4>1
      <4>5. QED
        BY <4>3, <4>4
    <3>4. CASE S!RecvRequest(c) \/ S!RecvFails(c) \/ S!Answered(c) \/ S!OpenFails(c)
               \/ S!StreamEnds(c) \/ S!HandlerResets(c)
      BY <1>0, <3>4 DEF S!RecvRequest, S!RecvFails, S!Answered, S!OpenFails, S!StreamEnds, S!HandlerResets
    <3>5. QED
      BY <1>9, <3>1, <3>2, <3>3, <3>4 DEF S!Handler
  <2>6. QED
    BY <1>0, <2>1, <2>2, <2>3, <2>4, <2>5 DEF S!Quiet, HttpTypes
<1>10. CASE UNCHANGED http
  BY <1>10 DEF http, HttpTypes
<1>11. QED
  BY <1>1, <1>2, <1>3, <1>4, <1>5, <1>6, <1>7, <1>8, <1>9, <1>10 DEF S!Next, S!Main

\* A step keeps the stages.
LEMMA HttpStageStep ==
  ASSUME S!FdBounds, HttpTypes, HttpStages, [S!Next]_http
  PROVE  HttpStages'
<1>0. /\ peer \in [S!Conns -> {"away", "queued", "open", "sent", "gone"}]
      /\ cl \in [S!Conns -> S!Object]
      /\ clients \in Seq(S!Conns) /\ file \in [S!Conns -> {0} \cup S!Fds]
      /\ pc \in [S!Conns -> HttpPcs] /\ main \in HttpMain
  BY DEF HttpTypes
<1>a. /\ \A c \in S!Conns : HttpStage(c)
      /\ \A i, j \in 1 .. Len(clients) : clients[i] = clients[j] => i = j
      /\ main.at \in {"reset", "join"} => \E c \in S!Conns : main.who = {c} /\ cl[c].st = "finish"
  BY DEF HttpStages
<1>1. ASSUME NEW c \in S!Conns, S!Peers(c)
      PROVE  HttpStages'
  <2>1. UNCHANGED <<cl, clients, pc, file, main>>
    BY <1>1 DEF S!Peers, S!Connect, S!Request, S!Hangup, S!Local
  <2>2. \A d \in S!Conns : peer'[d] \in {"away", "queued"} => peer[d] \in {"away", "queued"}
    BY <1>0, <1>1 DEF S!Peers, S!Connect, S!Request, S!Hangup
  <2>3. QED
    BY <1>a, <2>1, <2>2 DEF HttpStages, HttpStage
<1>2. CASE S!Accept
  <2>1. S!Lowest \in S!Fds
    BY <1>2, LowestIsFree DEF S!Accept
  <2>2. PICK c \in S!Conns :
           /\ peer[c] = "queued" /\ peer' = [peer EXCEPT ![c] = "open"]
           /\ cl' = [cl EXCEPT ![c] = [st |-> "waiting", fd |-> S!Lowest]]
           /\ clients' = Append(clients, c)
    BY <1>2 DEF S!Accept, S!Queued
  <2>3. UNCHANGED <<pc, file, main>>
    BY <1>2 DEF S!Accept
  <2>4. HttpStage(c)
    BY <1>a
  <2>5. cl[c].st = "none" /\ pc[c] = "idle" /\ ~S!Contains(clients, c)
    BY <2>2, <2>4 DEF HttpStage
  <2>6. /\ Len(clients') = Len(clients) + 1 /\ clients'[Len(clients) + 1] = c /\ Len(clients) \in Nat
        /\ \A i \in 1 .. Len(clients) : clients'[i] = clients[i]
    BY <1>0, <2>2
  <2>7. \A d \in S!Conns : S!Contains(clients', d) <=> S!Contains(clients, d) \/ d = c
    BY <2>6 DEF S!Contains
  <2>8. \A i, j \in 1 .. Len(clients') : clients'[i] = clients'[j] => i = j
    <3>1. \A i \in 1 .. Len(clients) : clients[i] # c
      BY <2>5 DEF S!Contains
    <3>2. QED
      BY <1>a, <2>6, <3>1
  <2>9. ASSUME NEW d \in S!Conns
        PROVE  HttpStage(d)'
    <3>1. CASE d = c
      <4>1. cl'[c].st = "waiting" /\ cl'[c].fd \in S!Fds /\ peer'[c] = "open" /\ pc'[c] = "idle"
        BY <1>0, <2>1, <2>2, <2>3, <2>5
      <4>2. QED
        BY <2>7, <3>1, <4>1 DEF HttpStage
    <3>2. CASE d # c
      <4>1. cl'[d] = cl[d] /\ peer'[d] = peer[d] /\ pc'[d] = pc[d] /\ file'[d] = file[d]
        BY <1>0, <2>2, <2>3, <3>2
      <4>2. QED
        BY <1>a, <2>7, <3>2, <4>1 DEF HttpStage
    <3>3. QED
      BY <3>1, <3>2
  <2>10. main'.at \notin {"reset", "join"}
    BY <1>2 DEF S!Accept
  <2>11. QED
    BY <2>8, <2>9, <2>10 DEF HttpStages
<1>3. CASE S!SelectFails
  BY <1>0, <1>3, <1>a DEF S!SelectFails, HttpStages, HttpStage, HttpMain
<1>4. CASE S!HandleWaiting
  <2>1. UNCHANGED <<peer, clients, file>> /\ main'.at = "reap"
    BY <1>0, <1>4 DEF S!HandleWaiting, S!HandleDue, HttpMain
  <2>2. ASSUME NEW d \in S!Conns
        PROVE  HttpStage(d)'
    <3>1. HttpStage(d)
      BY <1>a
    <3>2. CASE cl[d].st = "waiting" /\ cl'[d] = [cl[d] EXCEPT !.st = "start"] /\ pc'[d] = "recv"
      <4>1. cl'[d].st = "start"
        BY <1>0, <3>2 DEF S!Object
      <4>2. QED
        BY <2>1, <3>1, <3>2, <4>1 DEF HttpStage
    <3>3. CASE cl'[d] = cl[d] /\ pc'[d] = pc[d]
      BY <2>1, <3>1, <3>3 DEF HttpStage
    <3>4. QED
      BY <1>4, <3>2, <3>3 DEF S!HandleWaiting, S!HandleDue
  <2>3. QED
    BY <1>a, <2>1, <2>2 DEF HttpStages
<1>5. CASE S!ReapStop
  <2> DEFINE c == clients[S!Min(S!Finished)]
  <2>1. c \in S!Conns /\ cl[c].st = "finish"
    BY <1>5, FirstFinished DEF S!ReapStop
  <2>2. main' = [at |-> "reset", who |-> {c}] /\ UNCHANGED <<peer, cl, clients, pc, file>>
    BY <1>5 DEF S!ReapStop
  <2> HIDE DEF c
  <2>3. QED
    BY <1>a, <2>1, <2>2 DEF HttpStages, HttpStage
<1>6. ASSUME NEW c \in S!Conns, S!ReapReset(c)
      PROVE  HttpStages'
  <2>1. UNCHANGED <<peer, clients, pc, file>> /\ main'.who = main.who /\ main.at = "reset"
    BY <1>0, <1>6 DEF S!ReapReset, HttpMain
  <2>2. \A d \in S!Conns : cl'[d].st = cl[d].st /\ (cl[d].st = "waiting" => cl'[d].fd = cl[d].fd)
    <3>1. cl[c].st = "finish"
      BY <1>6, <1>a DEF S!ReapReset
    <3>2. QED
      BY <1>0, <1>6, <3>1 DEF S!ReapReset, S!Object
  <2>3. \A d \in S!Conns : HttpStage(d)'
    BY <1>a, <2>1, <2>2 DEF HttpStage
  <2>4. QED
    BY <1>a, <2>1, <2>2, <2>3 DEF HttpStages
<1>7. ASSUME NEW c \in S!Conns, S!ReapJoin(c)
      PROVE  HttpStages'
  <2>1. main.who = {c} /\ main.at = "join" /\ pc[c] = "done" /\ main'.at = "reap"
        /\ UNCHANGED <<peer, pc, file>> /\ clients' = S!RemoveFirst(clients, c)
        /\ cl' = [cl EXCEPT ![c].st = "deleted"]
    BY <1>7 DEF S!ReapJoin
  <2>2. cl[c].st = "finish"
    BY <1>a, <2>1
  <2>3. S!Contains(clients, c)
    BY <1>a, <2>2 DEF HttpStage
  <2>4. /\ \A d \in S!Conns : S!Contains(clients', d) <=> S!Contains(clients, d) /\ d # c
        /\ \A i, j \in 1 .. Len(clients') : clients'[i] = clients'[j] => i = j
    BY <1>0, <1>a, <2>1, <2>3, Erased
  <2>5. cl'[c].st = "deleted" /\ \A d \in S!Conns : d # c => cl'[d] = cl[d]
    BY <1>0, <2>1 DEF S!Object
  <2>6. ASSUME NEW d \in S!Conns
        PROVE  HttpStage(d)'
    <3>1. HttpStage(d)
      BY <1>a
    <3>2. CASE d = c
      BY <2>1, <2>2, <2>4, <2>5, <3>1, <3>2 DEF HttpStage
    <3>3. CASE d # c
      BY <2>1, <2>4, <2>5, <3>1, <3>3 DEF HttpStage
    <3>4. QED
      BY <3>2, <3>3
  <2>7. QED
    BY <2>1, <2>4, <2>6 DEF HttpStages
<1>8. CASE S!ReapEnds
  BY <1>0, <1>8, <1>a DEF S!ReapEnds, HttpStages, HttpStage, HttpMain
<1>9. ASSUME NEW c \in S!Conns, S!Handler(c)
      PROVE  HttpStages'
  <2> DEFINE Doing == {"recv", "text", "open", "stream", "close", "reset"}
  <2>1. UNCHANGED <<peer, clients, main>> /\ pc[c] \in Doing /\ pc'[c] # "idle"
        /\ \A d \in S!Conns : d # c => cl'[d] = cl[d] /\ pc'[d] = pc[d] /\ file'[d] = file[d]
    BY <1>0, <1>9 DEF S!Handler, S!RecvRequest, S!RecvFails, S!Answered, S!OpenFile, S!OpenFails,
                S!StreamEnds, S!StreamLosesPeer, S!HandlerCloses, S!HandlerResets, S!Ended, S!Closing,
                S!Quiet
  <2>2. HttpStage(c) /\ cl[c].st \in {"start", "finish"} /\ cl[c] \in S!Object
    <3>1. cl[c].st \in {"none", "waiting", "start", "finish", "deleted"}
      BY <1>0 DEF S!Object
    <3>2. QED
      BY <1>0, <1>a, <2>1, <3>1 DEF HttpStage
  <2>3. /\ cl'[c].st = cl[c].st \/ cl'[c].st = "finish"
        /\ cl'[c].st = "finish" => pc'[c] \in {"close", "reset", "done"}
        /\ pc'[c] = "done" => cl'[c].st = "finish"
        /\ pc'[c] = "stream" => file'[c] \in S!Fds
    <3>1. CASE S!RecvRequest(c)
      BY <1>0, <2>2, <3>1 DEF S!RecvRequest, HttpStage
    <3>2. CASE S!RecvFails(c)
      BY <1>0, <2>2, <3>2 DEF S!RecvFails, S!Ended, S!Closing, S!Object
    <3>3. CASE S!Answered(c)
      BY <1>0, <2>2, <3>3 DEF S!Answered, S!Ended, S!Closing, S!Object
    <3>4. CASE S!OpenFile(c)
      BY <1>0, <2>2, <3>4, LowestIsFree DEF S!OpenFile, HttpStage
    <3>5. CASE S!OpenFails(c)
      BY <1>0, <2>2, <3>5 DEF S!OpenFails, S!Ended, S!Closing, S!Object
    <3>6. CASE S!StreamEnds(c)
      BY <1>0, <2>2, <3>6 DEF S!StreamEnds, S!Ended, S!Object, HttpStage
    <3>7. CASE S!StreamLosesPeer(c)
      BY <1>0, <2>2, <3>7 DEF S!StreamLosesPeer, S!Ended, S!Closing, S!Object
    <3>8. CASE S!HandlerCloses(c)
      BY <1>0, <2>2, <3>8 DEF S!HandlerCloses
    <3>9. CASE S!HandlerResets(c)
      BY <1>0, <2>2, <3>9 DEF S!HandlerResets
    <3>10. QED
      BY <1>9, <3>1, <3>2, <3>3, <3>4, <3>5, <3>6, <3>7, <3>8, <3>9 DEF S!Handler
  <2>4. ASSUME NEW d \in S!Conns
        PROVE  HttpStage(d)'
    <3>1. CASE d = c
      BY <2>1, <2>2, <2>3, <3>1 DEF HttpStage
    <3>2. CASE d # c
      BY <1>a, <2>1, <3>2 DEF HttpStage
    <3>3. QED
      BY <3>1, <3>2
  <2>5. main'.at \in {"reset", "join"} => \E d \in S!Conns : main'.who = {d} /\ cl'[d].st = "finish"
    BY <1>a, <2>1, <2>3
  <2>6. QED
    BY <1>a, <2>1, <2>4, <2>5 DEF HttpStages
<1>10. CASE UNCHANGED http
  BY <1>10 DEF http, HttpStages, HttpStage
<1>11. QED
  BY <1>1, <1>2, <1>3, <1>4, <1>5, <1>6, <1>7, <1>8, <1>9, <1>10 DEF S!Next, S!Main

\* What a client owns stays its own while nothing of it is touched.
LEMMA OwnIsKept ==
  ASSUME NEW d \in S!Conns, HttpTypes, HttpStage(d), HttpOwn(d),
         cl'[d] = cl[d], pc'[d] = pc[d], file'[d] = file[d],
         \A f \in S!Fds : fdt[f] \in {S!Sock(d), S!File(d)} => fdt'[f] = fdt[f],
         (main.at = "reset" /\ main.who = {d}) => (main'.at = "reset" /\ main'.who = {d}),
         (main'.at \in {"reset", "join"} /\ d \in main'.who) => pc[d] = "done"
  PROVE  HttpOwn(d)'
<1>1. cl[d].st = "waiting" => fdt'[cl[d].fd] = S!Sock(d)
  BY DEF HttpOwn, HttpStage
<1>2. pc[d] \in {"recv", "text", "open", "stream", "close"} =>
        cl[d].fd \in S!Fds /\ fdt'[cl[d].fd] = S!Sock(d)
  BY DEF HttpOwn
<1>3. pc[d] = "stream" => fdt'[file[d]] = S!File(d)
  BY DEF HttpOwn, HttpStage
<1>4. (cl[d].st = "finish" /\ pc[d] = "done" /\ ~(main'.at = "reset" /\ main'.who = {d})) =>
        cl[d].fd = -1 \/ (cl[d].fd \in S!Fds /\ fdt'[cl[d].fd] = S!Sock(d))
  BY DEF HttpOwn
<1>5. S!Sock(d)' = S!Sock(d) /\ S!File(d)' = S!File(d)
  BY DEF S!Sock, S!File
<1>6. QED
  BY <1>1, <1>2, <1>3, <1>4, <1>5 DEF HttpOwn

\* Closing its own socket takes nothing from the others.
LEMMA ClosesOneSocket ==
  ASSUME NEW c \in S!Conns, HttpTypes, S!CloseSocket(c), cl[c].fd \in S!Fds,
         fdt[cl[c].fd] = S!Sock(c)
  PROVE  /\ foreign' = foreign
         /\ \A f \in S!Fds : f # cl[c].fd => fdt'[f] = fdt[f]
         /\ \A d \in S!Conns \ {c} : \A f \in S!Fds :
              fdt[f] \in {S!Sock(d), S!File(d)} => fdt'[f] = fdt[f]
<1>1. fdt \in [S!Fds -> HttpUses] /\ foreign \in BOOLEAN
  BY DEF HttpTypes
<1>2. foreign' = foreign
  BY <1>1 DEF S!CloseSocket
<1>3. \A f \in S!Fds : f # cl[c].fd => fdt'[f] = fdt[f]
  BY <1>1 DEF S!CloseSocket, S!Closed
<1>4. \A d \in S!Conns \ {c} : S!Sock(c) \notin {S!Sock(d), S!File(d)}
  BY HttpUsesDiffer
<1>5. QED
  BY <1>2, <1>3, <1>4

\* While it has not been crossed, every step leaves to each client what it owns.
LEMMA HttpOwnStep ==
  ASSUME S!FdBounds, HttpTypes, HttpStages, HttpOwns, [S!Next]_http
  PROVE  HttpOwns'
<1> SUFFICES ASSUME ~crossed'
             PROVE  /\ \A c \in S!Conns : HttpOwn(c)'
                    /\ readfds' = {cl'[c].fd : c \in {d \in S!Conns : cl'[d].st = "waiting"}}
                    /\ main'.at # "exited" /\ ~foreign'
  BY DEF HttpOwns
<1> DEFINE Waits == {cl[c].fd : c \in {d \in S!Conns : cl[d].st = "waiting"}}
<1>0. /\ peer \in [S!Conns -> {"away", "queued", "open", "sent", "gone"}]
      /\ cl \in [S!Conns -> S!Object]
      /\ clients \in Seq(S!Conns) /\ file \in [S!Conns -> {0} \cup S!Fds]
      /\ pc \in [S!Conns -> HttpPcs] /\ main \in HttpMain
      /\ fdt \in [S!Fds -> HttpUses]
  BY DEF HttpTypes
<1>a. /\ \A c \in S!Conns : HttpStage(c)
      /\ main.at \in {"reset", "join"} => \E c \in S!Conns : main.who = {c} /\ cl[c].st = "finish"
  BY DEF HttpStages
<1>b. ~crossed
  BY DEF S!Next, S!Main, S!Peers, S!Connect, S!Request, S!Hangup, S!Local, S!Accept, S!SelectFails,
         S!HandleWaiting, S!HandleDue, S!ReapStop, S!ReapReset, S!ReapJoin, S!ReapEnds,
         S!Handler, S!RecvRequest, S!RecvFails, S!Answered, S!OpenFile, S!OpenFails,
         S!StreamEnds, S!StreamLosesPeer, S!HandlerCloses, S!HandlerResets, S!Quiet, http
<1>c. /\ \A c \in S!Conns : HttpOwn(c)
      /\ readfds = Waits
      /\ main.at # "exited" /\ ~foreign
  BY <1>b DEF HttpOwns
<1>d. \A c \in S!Conns : cl[c].st = "waiting" => cl[c].fd \in S!Fds /\ fdt[cl[c].fd] = S!Sock(c)
  BY <1>a, <1>c DEF HttpStage, HttpOwn
<1>e. \A c \in S!Conns : cl[c].st = "waiting" => cl[c].fd \notin S!FreeFds
  BY <1>d, HttpUsesDiffer DEF S!FreeFds
<1>f. \A c \in S!Conns : (main.at \in {"reset", "join"} /\ c \in main.who) => pc[c] = "done"
  BY <1>c DEF HttpOwn
<1>1. ASSUME NEW c \in S!Conns, S!Peers(c)
      PROVE  HttpOwns'
  <2>1. UNCHANGED <<cl, pc, file, fdt, readfds, main, foreign, crossed>>
    BY <1>1 DEF S!Peers, S!Connect, S!Request, S!Hangup, S!Local
  <2>2. QED
    BY <2>1 DEF HttpOwns, HttpOwn, S!Sock, S!File
<1>2. CASE S!Accept
  <2>1. S!Lowest \in S!Fds /\ fdt[S!Lowest] = S!Nobody
    BY <1>2, LowestIsFree DEF S!Accept
  <2>2. PICK c \in S!Conns :
           /\ peer[c] = "queued"
           /\ cl' = [cl EXCEPT ![c] = [st |-> "waiting", fd |-> S!Lowest]]
           /\ fdt' = [fdt EXCEPT ![S!Lowest] = S!Sock(c)]
    BY <1>2 DEF S!Accept, S!Queued
  <2>3. UNCHANGED <<pc, file, main, foreign>> /\ readfds' = readfds \cup {S!Lowest}
        /\ main.at = "select"
    BY <1>2 DEF S!Accept
  <2>4. cl[c].st = "none" /\ pc[c] = "idle"
    BY <1>a, <2>2 DEF HttpStage
  <2>5. cl'[c] = [st |-> "waiting", fd |-> S!Lowest] /\ fdt'[S!Lowest] = S!Sock(c)
        /\ \A d \in S!Conns \ {c} : cl'[d] = cl[d]
    BY <1>0, <2>1, <2>2
  <2>6. ASSUME NEW d \in S!Conns
        PROVE  HttpOwn(d)'
    <3>1. CASE d = c
      BY <2>3, <2>4, <2>5, <3>1 DEF HttpOwn, S!Sock
    <3>2. CASE d # c
      <4>1. \A f \in S!Fds : fdt[f] \in {S!Sock(d), S!File(d)} => fdt'[f] = fdt[f]
        BY <1>0, <2>1, <2>2, HttpUsesDiffer
      <4>2. QED
        BY <1>a, <1>c, <2>3, <2>5, <3>2, <4>1, OwnIsKept
    <3>3. QED
      BY <3>1, <3>2
  <2>7. readfds' = {cl'[d].fd : d \in {x \in S!Conns : cl'[x].st = "waiting"}}
    BY <1>c, <2>3, <2>4, <2>5
  <2>8. QED
    BY <1>c, <2>3, <2>6, <2>7
<1>3. CASE S!SelectFails
  <2>1. \E c \in S!Conns : cl[c].st = "waiting" /\ cl[c].fd \in S!FreeFds
    BY <1>3, <1>c DEF S!SelectFails
  <2>2. QED
    BY <1>e, <2>1
<1>4. CASE S!HandleWaiting
  <2> DEFINE due == {c \in S!Conns : cl[c].st = "waiting" /\ cl[c].fd \notin S!FreeFds}
  <2>1. /\ cl' = [c \in S!Conns |-> IF c \in due THEN [cl[c] EXCEPT !.st = "start"] ELSE cl[c]]
        /\ pc' = [c \in S!Conns |-> IF c \in due THEN "recv" ELSE pc[c]]
        /\ readfds' = readfds \ {cl[c].fd : c \in due}
        /\ UNCHANGED <<file, fdt, foreign>>
        /\ main.at = "select" /\ main'.at = "reap"
    BY <1>0, <1>4 DEF S!HandleWaiting, S!HandleDue, HttpMain
  <2>2. due = {c \in S!Conns : cl[c].st = "waiting"}
    BY <1>e
  <2> HIDE DEF due
  <2>3. readfds' = {}
    BY <1>c, <2>1, <2>2
  <2>4. ASSUME NEW d \in S!Conns
        PROVE  HttpOwn(d)' /\ cl'[d].st # "waiting"
    <3>1. CASE d \in due
      <4>1. cl'[d].st = "start" /\ cl'[d].fd = cl[d].fd /\ pc'[d] = "recv"
        BY <1>0, <2>1, <3>1 DEF S!Object
      <4>2. QED
        BY <1>d, <2>1, <2>2, <3>1, <4>1 DEF HttpOwn, S!Sock
    <3>2. CASE d \notin due
      <4>1. cl'[d] = cl[d] /\ pc'[d] = pc[d]
        BY <2>1, <3>2
      <4>2. HttpOwn(d)'
        BY <1>a, <1>c, <2>1, <4>1, OwnIsKept
      <4>3. QED
        BY <2>2, <3>2, <4>1, <4>2
    <3>3. QED
      BY <3>1, <3>2
  <2>5. QED
    BY <1>c, <2>1, <2>3, <2>4
<1>5. CASE S!ReapStop
  <2> DEFINE c == clients[S!Min(S!Finished)]
  <2>1. c \in S!Conns /\ cl[c].st = "finish"
    BY <1>5, FirstFinished DEF S!ReapStop
  <2>2. /\ crossed' = (crossed \/ pc[c] # "done") /\ main' = [at |-> "reset", who |-> {c}]
        /\ IF cl[c].fd = -1 THEN UNCHANGED <<fdt, foreign>> ELSE S!CloseSocket(c)
        /\ main.at = "reap" /\ UNCHANGED <<cl, pc, file, readfds>>
    BY <1>5 DEF S!ReapStop
  <2> HIDE DEF c
  <2>3. pc[c] = "done"
    BY <2>2
  <2>4. cl[c].fd = -1 \/ (cl[c].fd \in S!Fds /\ fdt[cl[c].fd] = S!Sock(c))
    BY <1>c, <2>1, <2>2, <2>3 DEF HttpOwn
  <2>5. /\ foreign' = foreign
        /\ \A d \in S!Conns \ {c} : \A f \in S!Fds :
              fdt[f] \in {S!Sock(d), S!File(d)} => fdt'[f] = fdt[f]
    BY <2>1, <2>2, <2>4, ClosesOneSocket
  <2>6. ASSUME NEW d \in S!Conns
        PROVE  HttpOwn(d)'
    <3>1. CASE d = c
      BY <2>1, <2>2, <2>3, <3>1 DEF HttpOwn
    <3>2. CASE d # c
      BY <1>a, <1>c, <2>2, <2>5, <3>2, OwnIsKept
    <3>3. QED
      BY <3>1, <3>2
  <2>7. QED
    BY <1>c, <2>2, <2>5, <2>6
<1>6. ASSUME NEW c \in S!Conns, S!ReapReset(c)
      PROVE  HttpOwns'
  <2>1. UNCHANGED <<pc, file, fdt, readfds, foreign>> /\ main'.who = {c} /\ main'.at = "join"
        /\ main.at = "reset" /\ main.who = {c} /\ cl' = [cl EXCEPT ![c].fd = -1]
    BY <1>0, <1>6 DEF S!ReapReset, HttpMain
  <2>2. cl[c].st = "finish" /\ pc[c] = "done"
    BY <1>a, <1>f, <2>1
  <2>3. cl'[c].st = "finish" /\ cl'[c].fd = -1 /\ \A d \in S!Conns \ {c} : cl'[d] = cl[d]
    BY <1>0, <2>1, <2>2 DEF S!Object
  <2>4. ASSUME NEW d \in S!Conns
        PROVE  HttpOwn(d)'
    <3>1. CASE d = c
      BY <2>1, <2>2, <2>3, <3>1 DEF HttpOwn
    <3>2. CASE d # c
      BY <1>a, <1>c, <2>1, <2>3, <3>2, OwnIsKept
    <3>3. QED
      BY <3>1, <3>2
  <2>5. readfds' = {cl'[d].fd : d \in {x \in S!Conns : cl'[x].st = "waiting"}}
    BY <1>c, <2>1, <2>2, <2>3
  <2>6. QED
    BY <1>c, <2>1, <2>4, <2>5 DEF HttpOwns
<1>7. ASSUME NEW c \in S!Conns, S!ReapJoin(c)
      PROVE  HttpOwns'
  <2>1. main.who = {c} /\ main.at = "join" /\ pc[c] = "done" /\ main'.at = "reap"
        /\ UNCHANGED <<pc, file, fdt, readfds, foreign>>
        /\ cl' = [cl EXCEPT ![c].st = "deleted"]
    BY <1>7 DEF S!ReapJoin
  <2>2. cl[c].st = "finish"
    BY <1>a, <2>1
  <2>3. cl'[c].st = "deleted" /\ \A d \in S!Conns \ {c} : cl'[d] = cl[d]
    BY <1>0, <2>1 DEF S!Object
  <2>4. ASSUME NEW d \in S!Conns
        PROVE  HttpOwn(d)'
    <3>1. CASE d = c
      BY <2>1, <2>2, <2>3, <3>1 DEF HttpOwn
    <3>2. CASE d # c
      BY <1>a, <1>c, <2>1, <2>3, <3>2, OwnIsKept
    <3>3. QED
      BY <3>1, <3>2
  <2>5. readfds' = {cl'[d].fd : d \in {x \in S!Conns : cl'[x].st = "waiting"}}
    BY <1>c, <2>1, <2>2, <2>3
  <2>6. QED
    BY <1>c, <2>1, <2>4, <2>5 DEF HttpOwns
<1>8. CASE S!ReapEnds
  <2>1. main.at = "reap" /\ main'.at = "select" /\ UNCHANGED <<cl, pc, file, fdt, readfds, foreign>>
    BY <1>0, <1>8 DEF S!ReapEnds, HttpMain
  <2>2. \A d \in S!Conns : HttpOwn(d)'
    BY <1>a, <1>c, <2>1, OwnIsKept
  <2>3. QED
    BY <1>c, <2>1, <2>2
<1>9. ASSUME NEW c \in S!Conns, S!Handler(c)
      PROVE  HttpOwns'
  <2> DEFINE Doing == {"recv", "text", "open", "stream", "close", "reset"}
             TheRest == \A d \in S!Conns \ {c} : \A f \in S!Fds :
                        fdt[f] \in {S!Sock(d), S!File(d)} => fdt'[f] = fdt[f]
  <2>1. UNCHANGED <<main, readfds>> /\ pc[c] \in Doing
        /\ \A d \in S!Conns \ {c} : cl'[d] = cl[d] /\ pc'[d] = pc[d] /\ file'[d] = file[d]
    BY <1>0, <1>9 DEF S!Handler, S!RecvRequest, S!RecvFails, S!Answered, S!OpenFile, S!OpenFails,
                S!StreamEnds, S!StreamLosesPeer, S!HandlerCloses, S!HandlerResets, S!Ended, S!Closing,
                S!Quiet
  <2>2. cl[c].st \in {"start", "finish"} /\ cl[c] \in S!Object /\ HttpOwn(c) /\ HttpStage(c)
    <3>1. cl[c].st \in {"none", "waiting", "start", "finish", "deleted"}
      BY <1>0 DEF S!Object
    <3>2. QED
      BY <1>0, <1>a, <1>c, <2>1, <3>1 DEF HttpStage
  <2>3. ~(main.at \in {"reset", "join"} /\ c \in main.who)
    BY <1>f, <2>1
  <2> DEFINE Owns == cl'[c].fd \in S!Fds /\ fdt'[cl'[c].fd] = S!Sock(c)
  <2>4. ASSUME cl'[c].st \in {"start", "finish"},
               pc'[c] \in {"recv", "text", "open", "stream", "close", "done"} => Owns \/ (pc'[c] = "done" /\ cl'[c].fd = -1),
               pc'[c] = "stream" => fdt'[file'[c]] = S!File(c)
        PROVE  HttpOwn(c)'
    BY <2>1, <2>3, <2>4 DEF HttpOwn, S!Sock, S!File
  <2>5. pc[c] # "reset" => cl[c].fd \in S!Fds /\ fdt[cl[c].fd] = S!Sock(c)
    BY <2>1, <2>2 DEF HttpOwn
  <2>6. ASSUME UNCHANGED <<fdt, foreign>>, pc[c] # "reset", cl'[c].fd = cl[c].fd,
               cl'[c].st \in {"start", "finish"}, pc'[c] # "stream"
        PROVE  HttpOwn(c)' /\ TheRest /\ foreign' = foreign
    BY <2>4, <2>5, <2>6
  <2>7. HttpOwn(c)' /\ TheRest /\ foreign' = foreign /\ cl'[c].st \in {"start", "finish"}
    <3>1. CASE S!RecvRequest(c)
      <4>1. UNCHANGED <<fdt, foreign, cl>> /\ pc'[c] # "stream" /\ pc[c] = "recv"
        BY <1>0, <3>1 DEF S!RecvRequest
      <4>2. QED
        BY <2>2, <2>6, <4>1
    <3>2. CASE S!RecvFails(c)
      <4>1. UNCHANGED <<fdt, foreign>> /\ pc'[c] # "stream" /\ pc[c] = "recv"
            /\ cl'[c].st = "finish" /\ cl'[c].fd = cl[c].fd
        BY <1>0, <2>2, <3>2 DEF S!RecvFails, S!Ended, S!Closing, S!Object
      <4>2. QED
        BY <2>6, <4>1
    <3>3. CASE S!Answered(c)
      <4>1. UNCHANGED <<fdt, foreign>> /\ pc'[c] # "stream" /\ pc[c] = "text"
            /\ cl'[c].st \in {"start", "finish"} /\ cl'[c].fd = cl[c].fd
        BY <1>0, <2>2, <3>3 DEF S!Answered, S!Ended, S!Closing, S!Object
      <4>2. QED
        BY <2>6, <4>1
    <3>4. CASE S!OpenFile(c)
      <4>1. S!Lowest \in S!Fds /\ fdt[S!Lowest] = S!Nobody
        BY <3>4, LowestIsFree DEF S!OpenFile
      <4>2. /\ fdt' = [fdt EXCEPT ![S!Lowest] = S!File(c)] /\ file'[c] = S!Lowest
            /\ pc[c] = "open" /\ pc'[c] = "stream" /\ UNCHANGED <<cl, foreign>>
        BY <1>0, <3>4 DEF S!OpenFile
      <4>3. fdt'[S!Lowest] = S!File(c) /\ \A f \in S!Fds : fdt[f] # S!Nobody => fdt'[f] = fdt[f]
        BY <1>0, <4>1, <4>2
      <4>4. TheRest
        BY <4>3, HttpUsesDiffer
      <4>5. Owns
        BY <2>5, <4>2, <4>3, HttpUsesDiffer
      <4>6. QED
        BY <2>2, <2>4, <4>2, <4>3, <4>4, <4>5
    <3>5. CASE S!OpenFails(c)
      <4>1. UNCHANGED <<fdt, foreign>> /\ pc'[c] # "stream" /\ pc[c] = "open"
            /\ cl'[c].st \in {"start", "finish"} /\ cl'[c].fd = cl[c].fd
        BY <1>0, <2>2, <3>5 DEF S!OpenFails, S!Ended, S!Closing, S!Object
      <4>2. QED
        BY <2>6, <4>1
    <3>6. CASE S!StreamEnds(c)
      <4>1. UNCHANGED <<fdt, foreign>> /\ pc'[c] # "stream" /\ pc[c] = "stream"
            /\ cl'[c].st \in {"start", "finish"} /\ cl'[c].fd = cl[c].fd
        BY <1>0, <2>2, <3>6 DEF S!StreamEnds, S!Ended, S!Object
      <4>2. QED
        BY <2>6, <4>1
    <3>7. CASE S!StreamLosesPeer(c)
      <4>1. pc'[c] # "stream" /\ pc[c] = "stream"
            /\ cl'[c].st \in {"start", "finish"} /\ cl'[c].fd = cl[c].fd
        BY <1>0, <2>2, <3>7 DEF S!StreamLosesPeer, S!Ended, S!Closing, S!Object
      <4>2. CASE UNCHANGED <<fdt, foreign>>
        BY <2>6, <4>1, <4>2
      <4>3. CASE /\ fdt' = S!Closed(fdt, file[c])
                 /\ foreign' = (foreign \/ fdt[file[c]] \notin {S!File(c), S!Nobody})
        <5>1. file[c] \in S!Fds /\ fdt[file[c]] = S!File(c)
          BY <2>2, <4>1 DEF HttpStage, HttpOwn
        <5>2. foreign' = foreign
          <6>1. foreign \in BOOLEAN
            BY DEF HttpTypes
          <6>2. QED
            BY <4>3, <5>1, <6>1
        <5>3. \A f \in S!Fds : fdt[f] # S!File(c) => fdt'[f] = fdt[f]
          BY <1>0, <4>3, <5>1 DEF S!Closed
        <5>4. TheRest
          BY <5>3, HttpUsesDiffer
        <5>5. Owns
          BY <2>5, <4>1, <5>3, HttpUsesDiffer
        <5>6. QED
          BY <2>4, <4>1, <5>2, <5>4, <5>5
      <4>4. QED
        BY <3>7, <4>1, <4>2, <4>3 DEF S!StreamLosesPeer
    <3>8. CASE S!HandlerCloses(c)
      <4>1. UNCHANGED cl /\ pc[c] = "close" /\ pc'[c] = "reset"
            /\ IF cl[c].fd = -1 THEN UNCHANGED <<fdt, foreign>> ELSE S!CloseSocket(c)
        BY <1>0, <3>8 DEF S!HandlerCloses
      <4>2. cl[c].fd \in S!Fds /\ fdt[cl[c].fd] = S!Sock(c) /\ cl[c].fd # -1
        BY <2>5, <4>1 DEF S!Fds
      <4>3. TheRest /\ foreign' = foreign
        BY <4>1, <4>2, ClosesOneSocket
      <4>4. QED
        BY <2>2, <2>4, <4>1, <4>3
    <3>9. CASE S!HandlerResets(c)
      <4>1. UNCHANGED <<fdt, foreign>> /\ cl'[c] = [st |-> "finish", fd |-> -1] /\ pc'[c] = "done"
        BY <1>0, <3>9 DEF S!HandlerResets
      <4>2. QED
        BY <2>4, <4>1
    <3>10. QED
      BY <1>9, <3>1, <3>2, <3>3, <3>4, <3>5, <3>6, <3>7, <3>8, <3>9 DEF S!Handler
  <2>8. ASSUME NEW d \in S!Conns \ {c}
        PROVE  HttpOwn(d)'
    <3>1. \A f \in S!Fds : fdt[f] \in {S!Sock(d), S!File(d)} => fdt'[f] = fdt[f]
      BY <2>7
    <3>2. QED
      BY <1>a, <1>c, <1>f, <2>1, <3>1, OwnIsKept
  <2>9. readfds' = {cl'[d].fd : d \in {x \in S!Conns : cl'[x].st = "waiting"}}
    BY <1>c, <2>1, <2>2, <2>7
  <2>10. QED
    BY <1>c, <2>1, <2>7, <2>8, <2>9 DEF HttpOwns
<1>10. CASE UNCHANGED http
  BY <1>10, <1>c DEF http, HttpOwn, S!Sock, S!File
<1>11. QED
  BY <1>1, <1>2, <1>3, <1>4, <1>5, <1>6, <1>7, <1>8, <1>9, <1>10 DEF S!Next, S!Main, HttpOwns

\* What the stages and the owners say in the words of the module.
LEMMA HttpImplies ==
  ASSUME HttpTypes, HttpStages, HttpOwns
  PROVE  S!TypeOK /\ S!ClosesItsOwn /\ S!WaitingAreSelected /\ S!DeletesNoRunning
<1>1. S!TypeOK
  <2>1. \A f \in S!Fds : fdt[f] = S!Nobody \/ \E c \in S!Conns : fdt[f] \in {S!Sock(c), S!File(c)}
    BY DEF HttpTypes, HttpUses
  <2>2. pc \in [S!Conns -> {"idle", "recv", "text", "open", "stream", "close", "reset", "done"}]
    BY DEF HttpTypes, HttpPcs
  <2>3. {crossed, foreign} \subseteq BOOLEAN
    BY DEF HttpTypes
  <2>4. QED
    BY <2>1, <2>2, <2>3 DEF HttpTypes, HttpMain, S!TypeOK, S!None
<1>2. S!ClosesItsOwn
  BY DEF HttpOwns, S!ClosesItsOwn
<1>3. S!WaitingAreSelected
  BY DEF HttpOwns, HttpOwn, S!WaitingAreSelected
<1>4. S!DeletesNoRunning
  BY DEF HttpStages, HttpStage, S!DeletesNoRunning, S!Contains
<1>5. QED
  BY <1>1, <1>2, <1>3, <1>4

\* The server begins with nobody served.
LEMMA HttpBegins ==
  ASSUME S!FdBounds, S!Init
  PROVE  HttpTypes /\ HttpStages /\ HttpOwns
<1>1. HttpTypes
  <2>1. peer \in [S!Conns -> {"away", "queued", "open", "sent", "gone"}] /\ want \in [S!Conns -> S!Requests]
    BY DEF S!Init, S!Requests
  <2>2. cl \in [S!Conns -> S!Object] /\ clients \in Seq(S!Conns)
    BY DEF S!Init, S!Object
  <2>3. file \in [S!Conns -> {0} \cup S!Fds] /\ pc \in [S!Conns -> HttpPcs]
    BY DEF S!Init, S!None, HttpPcs
  <2>4. fdt \in [S!Fds -> HttpUses]
    BY HttpUsesDiffer DEF S!Init
  <2>5. readfds \subseteq S!Fds /\ crossed \in BOOLEAN /\ foreign \in BOOLEAN /\ main \in HttpMain
    BY DEF S!Init, HttpMain
  <2>6. QED
    BY <2>1, <2>2, <2>3, <2>4, <2>5 DEF HttpTypes
<1>2. HttpStages
  BY DEF S!Init, HttpStages, HttpStage, S!Contains
<1>3. HttpOwns
  BY DEF S!Init, HttpOwns, HttpOwn
<1>4. QED
  BY <1>1, <1>2, <1>3

-----------------------------------------------------------------------------
(* The servers of ut_socket                                                 *)

\* The types, one conjunct each.
SockTypes ==
  /\ kind \in Kinds /\ backlog \in Seq(SockPeers)
  /\ other \in [SockPeers -> {"away", "up", "gone"}]
  /\ asked \subseteq SockPeers /\ asks \in 0 .. MaxAsks
  /\ interest \in [SockPeers -> {"none", "in", "out"}]
  /\ conn_a \in [U!Slots -> SockPeers \cup {NoPeer}]
  /\ nReady \in Nat /\ nReady <= Cardinality(SockPeers) + 1
  /\ ready \subseteq SockPeers \cup {NoPeer}
  /\ at \in U!Slots \cup {0, Size + 1}

\* Who waits to be accepted, and how far the server is with those that are ready.
SockStages ==
  /\ \A i, j \in 1 .. Len(backlog) : backlog[i] = backlog[j] => i = j
  /\ \A i \in 1 .. Len(backlog) : interest[backlog[i]] = "none" /\ other[backlog[i]] # "away"
  /\ \A c \in SockPeers : other[c] = "away" => interest[c] = "none"
  /\ U!Udp => backlog = <<>> /\ \A c \in SockPeers : other[c] # "away"
  /\ (U!Selects /\ at = Size + 1 /\ NoPeer \in ready) => backlog # <<>>
  /\ ~U!Selects => \A c \in ready \cap SockPeers : interest[c] # "none"
  /\ at \in U!Slots => nReady >= 1
  /\ at = 0 => ready = {}

\* The invariant of the servers.
SockInv == SockTypes /\ SockStages /\ U!TableIsWatched

\* The instance counts as FiniteSets does.
LEMMA SockCount ==
  ASSUME NEW T
  PROVE  U!Cardinality(T) = Cardinality(T) /\ (U!IsFiniteSet(T) <=> IsFiniteSet(T))
<1>1. U!Cardinality(T) = Cardinality(T)
  BY DEF U!Cardinality, Cardinality
<1>2. U!IsFiniteSet(T) <=> IsFiniteSet(T)
  BY DEF U!IsFiniteSet, IsFiniteSet
<1>3. QED
  BY <1>1, <1>2

\* What the constants of the servers are, and where the server can be.
LEMMA SockBounds ==
  /\ NoPeer \notin SockPeers /\ Size \in Nat /\ Size > 0 /\ MaxAsks \in Nat
  /\ IsFiniteSet(SockPeers) /\ Cardinality(SockPeers) \in Nat /\ Cardinality(SockPeers) <= Size
  /\ U!Slots = 1 .. Size /\ U!Waiting = 0 /\ U!Accepting = Size + 1 /\ U!Listener = NoPeer
  /\ 0 \notin U!Slots /\ Size + 1 \notin U!Slots
<1>1. U!Cardinality(SockPeers) = Cardinality(SockPeers) /\ (U!IsFiniteSet(SockPeers) <=> IsFiniteSet(SockPeers))
  BY SockCount
<1>2. U!ServerBounds
  BY InstanceAssumption
<1>3. IsFiniteSet(SockPeers) /\ Cardinality(SockPeers) <= Size /\ NoPeer \notin SockPeers
      /\ Size \in Nat /\ Size > 0 /\ MaxAsks \in Nat
  BY <1>1, <1>2 DEF U!ServerBounds
<1>4. Cardinality(SockPeers) \in Nat
  BY <1>3, FS_CardinalityType
<1>5. QED
  BY <1>3, <1>4 DEF U!Slots, U!Waiting, U!Accepting, U!Listener

\* A part of those that can be ready is counted.
LEMMA ReadyIsCounted ==
  ASSUME NEW R \in SUBSET (SockPeers \cup {NoPeer})
  PROVE  /\ Cardinality(R) \in Nat /\ Cardinality(R) <= Cardinality(SockPeers) + 1
         /\ Cardinality(R \ {NoPeer}) \in Nat /\ Cardinality(R \ {NoPeer}) <= Cardinality(SockPeers) + 1
<1> DEFINE All == SockPeers \cup {NoPeer}
<1>1. IsFiniteSet(All) /\ Cardinality(All) = Cardinality(SockPeers) + 1
  BY SockBounds, FS_AddElement
<1>2. ASSUME NEW T \in SUBSET All
      PROVE  Cardinality(T) \in Nat /\ Cardinality(T) <= Cardinality(SockPeers) + 1
  BY <1>1, FS_Subset, FS_CardinalityType
<1>3. R \ {NoPeer} \in SUBSET All
  OBVIOUS
<1>4. QED
  BY <1>2, <1>3

\* The table of a datagram server has every socket once.
LEMMA TableOfAll ==
  LET tab == [i \in U!Slots |-> IF i <= Cardinality(SockPeers) THEN U!SetToSeq(SockPeers)[i] ELSE NoPeer]
  IN  /\ tab \in [U!Slots -> SockPeers \cup {NoPeer}]
      /\ SockPeers = {tab[i] : i \in U!Slots} \ {NoPeer}
      /\ \A i, j \in U!Slots : tab[i] = tab[j] /\ tab[i] # NoPeer => i = j
<1> DEFINE n == Cardinality(SockPeers)
           s == U!SetToSeq(SockPeers)
           tab == [i \in U!Slots |-> IF i <= n THEN s[i] ELSE NoPeer]
<1>1. IsFiniteSet(SockPeers) /\ n \in Nat /\ n <= Size /\ NoPeer \notin SockPeers /\ U!Slots = 1 .. Size
      /\ Size \in Nat
  BY SockBounds
<1>2. PICK g : g \in Bijection(1 .. n, SockPeers)
  BY <1>1, FS_CardinalityType DEF ExistsBijection
<1>3. g \in [1 .. n -> SockPeers] /\ \A i, j \in 1 .. n : g[i] = g[j] => i = j
  BY <1>2 DEF Bijection, Injection, IsInjective
<1>4. U!Cardinality(SockPeers) = n
  BY SockCount
<1> HIDE DEF n
<1>5. s = CHOOSE f \in [1 .. n -> SockPeers] : U!IsInjective(f)
  BY <1>4 DEF U!SetToSeq
<1>6. U!IsInjective(g)
  BY <1>3 DEF U!IsInjective
<1> HIDE DEF s
<1>7. s \in [1 .. n -> SockPeers] /\ U!IsInjective(s)
  BY <1>3, <1>5, <1>6
<1>8. s \in Injection(1 .. n, SockPeers)
  BY <1>7 DEF U!IsInjective, IsInjective, Injection
<1>9. Cardinality(1 .. n) = n /\ IsFiniteSet(1 .. n)
  BY <1>1, FS_Interval
<1>10. s \in Surjection(1 .. n, SockPeers)
  BY <1>1, <1>8, <1>9, FS_Injection DEF n
<1>11. \A c \in SockPeers : \E i \in 1 .. n : s[i] = c
  BY <1>10 DEF Surjection
<1>12. \A i, j \in 1 .. n : s[i] = s[j] => i = j
  BY <1>7 DEF U!IsInjective
<1>13. \A i \in U!Slots : (i \in 1 .. n => tab[i] = s[i] /\ s[i] \in SockPeers) /\ (i \notin 1 .. n => tab[i] = NoPeer)
  BY <1>1, <1>7
<1>14. 1 .. n \subseteq U!Slots
  BY <1>1
<1>15. tab \in [U!Slots -> SockPeers \cup {NoPeer}]
  BY <1>13
<1>16. SockPeers = {tab[i] : i \in U!Slots} \ {NoPeer}
  <2> HIDE DEF tab
  <2>1. ASSUME NEW c \in SockPeers
        PROVE  c \in {tab[i] : i \in U!Slots} \ {NoPeer}
    BY <1>1, <1>11, <1>13, <1>14
  <2>2. ASSUME NEW i \in U!Slots, tab[i] # NoPeer
        PROVE  tab[i] \in SockPeers
    BY <1>13, <2>2
  <2>3. QED
    BY <2>1, <2>2
<1>17. \A i, j \in U!Slots : tab[i] = tab[j] /\ tab[i] # NoPeer => i = j
  <2> HIDE DEF tab
  <2>1. QED
    BY <1>12, <1>13
<1>18. QED
  BY <1>15, <1>16, <1>17 DEF n, s

\* While somebody is not in the table, a slot is free.
LEMMA SomeSlotIsFree ==
  ASSUME SockTypes, NEW c \in SockPeers, \A i \in U!Slots : conn_a[i] # c,
         \A i, j \in U!Slots : conn_a[i] = conn_a[j] /\ conn_a[i] # NoPeer => i = j
  PROVE  \E k \in U!Slots : conn_a[k] = NoPeer /\ U!TakenByIn = {k}
<1>1. conn_a \in [U!Slots -> SockPeers \cup {NoPeer}]
  BY DEF SockTypes
<1>2. U!FreeSlots # {}
  <2> SUFFICES ASSUME \A i \in U!Slots : conn_a[i] # NoPeer
               PROVE  FALSE
    BY DEF U!FreeSlots
  <2> DEFINE T == SockPeers \ {c}
  <2>1. conn_a \in [U!Slots -> T]
    BY <1>1
  <2>2. IsFiniteSet(SockPeers) /\ U!Slots = 1 .. Size /\ Size \in Nat /\ Size > 0
        /\ Cardinality(SockPeers) \in Nat /\ Cardinality(SockPeers) <= Size
    BY SockBounds
  <2>3. IsFiniteSet(U!Slots) /\ Cardinality(U!Slots) = Size
    BY <2>2, FS_Interval
  <2>4. IsFiniteSet(T) /\ Cardinality(T) = Cardinality(SockPeers) - 1
    BY <2>2, FS_RemoveElement
  <2>5. Cardinality(T) < Cardinality(U!Slots)
    BY <2>2, <2>3, <2>4
  <2> HIDE DEF T
  <2>6. \E x, y \in U!Slots : x # y /\ conn_a[x] = conn_a[y]
    BY <2>1, <2>3, <2>4, <2>5, FS_PigeonHole
  <2>7. QED
    BY <2>6
<1>3. U!FreeSlots \in SUBSET Nat
  BY SockBounds DEF U!FreeSlots
<1> DEFINE k == Min(U!FreeSlots)
<1>4. k \in U!FreeSlots /\ \A y \in U!FreeSlots : k <= y
  BY <1>2, <1>3, HasMin
<1> HIDE DEF k
<1>5. U!TakenByIn = {k}
  <2>1. ASSUME NEW i \in U!FreeSlots, \A j \in U!FreeSlots : i <= j
        PROVE  i = k
    BY <1>3, <1>4, <2>1
  <2>2. QED
    BY <1>4, <2>1 DEF U!TakenByIn
<1>6. QED
  BY <1>4, <1>5 DEF U!FreeSlots

\* A step keeps the types.
LEMMA SockTypeStep ==
  ASSUME SockInv, [U!Next]_sockets
  PROVE  SockTypes'
<1>0. /\ kind \in Kinds /\ backlog \in Seq(SockPeers)
      /\ other \in [SockPeers -> {"away", "up", "gone"}]
      /\ asked \subseteq SockPeers /\ asks \in 0 .. MaxAsks
      /\ interest \in [SockPeers -> {"none", "in", "out"}]
      /\ conn_a \in [U!Slots -> SockPeers \cup {NoPeer}]
      /\ nReady \in Nat /\ nReady <= Cardinality(SockPeers) + 1
      /\ ready \subseteq SockPeers \cup {NoPeer}
      /\ at \in U!Slots \cup {0, Size + 1}
  BY DEF SockInv, SockTypes
<1>a. /\ Size \in Nat /\ Size > 0 /\ Cardinality(SockPeers) \in Nat
      /\ U!Slots = 1 .. Size /\ U!Waiting = 0 /\ U!Accepting = Size + 1 /\ U!Listener = NoPeer
  BY SockBounds
<1>b. U!Pending \subseteq SockPeers \cup {NoPeer}
  BY <1>a DEF U!Pending, U!Readable, U!Writable
<1>1. ASSUME NEW c \in SockPeers, U!Connect(c) \/ U!Ask(c) \/ U!Close(c)
      PROVE  SockTypes'
  <2>1. UNCHANGED <<kind, interest, conn_a, nReady, ready, at>>
    BY <1>1 DEF U!Connect, U!Ask, U!Close, U!server
  <2>2. other' \in [SockPeers -> {"away", "up", "gone"}]
    BY <1>0, <1>1 DEF U!Connect, U!Ask, U!Close
  <2>3. backlog' \in Seq(SockPeers)
    BY <1>0, <1>1 DEF U!Connect, U!Ask, U!Close
  <2>4. asked' \subseteq SockPeers /\ asks' \in 0 .. MaxAsks
    BY <1>0, <1>1, SockBounds DEF U!Connect, U!Ask, U!Close
  <2>5. QED
    BY <1>0, <2>1, <2>2, <2>3, <2>4 DEF SockTypes
<1>2. CASE U!Wait
  <2>1. UNCHANGED <<backlog, other, asked, asks, kind, interest, conn_a>> /\ at' = Size + 1
    BY <1>2, <1>a DEF U!Wait, U!client
  <2>2. ready' \subseteq U!Pending
    BY <1>2 DEF U!Wait
  <2>3. nReady' = Cardinality(ready')
    BY <1>2, SockCount DEF U!Wait
  <2>4. nReady' \in Nat /\ nReady' <= Cardinality(SockPeers) + 1 /\ ready' \subseteq SockPeers \cup {NoPeer}
    BY <1>b, <2>2, <2>3, ReadyIsCounted
  <2>5. QED
    BY <1>0, <2>1, <2>4 DEF SockTypes
<1>3. CASE U!SelectAccept
  <2>1. U!Selects /\ at = Size + 1 /\ UNCHANGED <<kind, other, asked, asks>>
    BY <1>3, <1>a DEF U!SelectAccept
  <2>2. NoPeer \in ready => backlog # <<>>
    BY <2>1 DEF SockInv, SockStages
  <2>3. /\ backlog' \in Seq(SockPeers) /\ interest' \in [SockPeers -> {"none", "in", "out"}]
        /\ conn_a' \in [U!Slots -> SockPeers \cup {NoPeer}]
    <3>1. CASE NoPeer \in ready
      <4>1. Head(backlog) \in SockPeers /\ Tail(backlog) \in Seq(SockPeers)
        BY <1>0, <2>2, <3>1
      <4>2. /\ backlog' = Tail(backlog) /\ interest' = [interest EXCEPT ![Head(backlog)] = "in"]
            /\ conn_a' = [i \in U!Slots |-> IF i \in U!Taken THEN Head(backlog) ELSE conn_a[i]]
        BY <1>3, <1>a, <3>1 DEF U!SelectAccept
      <4>3. QED
        BY <1>0, <4>1, <4>2
    <3>2. CASE NoPeer \notin ready
      BY <1>0, <1>3, <1>a, <3>2 DEF U!SelectAccept
    <3>3. QED
      BY <3>1, <3>2
  <2>4. nReady' = Cardinality(ready \ {NoPeer}) /\ at' \in {0, 1} /\ ready' \in {{}, ready}
    BY <1>3, <1>a, SockCount DEF U!SelectAccept
  <2>5. nReady' \in Nat /\ nReady' <= Cardinality(SockPeers) + 1
    BY <1>0, <2>4, ReadyIsCounted
  <2>6. at' \in U!Slots \cup {0, Size + 1} /\ ready' \subseteq SockPeers \cup {NoPeer}
    BY <1>0, <1>a, <2>4
  <2>7. QED
    BY <1>0, <2>1, <2>3, <2>5, <2>6 DEF SockTypes
<1>4. CASE U!SelectSlot
  <2>1. at \in U!Slots /\ UNCHANGED <<kind, backlog, other, asks>>
    BY <1>4 DEF U!SelectSlot
  <2>2. nReady >= 1
    BY <2>1 DEF SockInv, SockStages
  <2>3. nReady' \in {nReady, nReady - 1} /\ at' \in {0, at + 1} /\ (at = Size => at' = 0) /\ ready' \in {{}, ready}
    BY <1>4, <1>a DEF U!SelectSlot
  <2>4. /\ asked' \subseteq SockPeers /\ interest' \in [SockPeers -> {"none", "in", "out"}]
        /\ conn_a' \in [U!Slots -> SockPeers \cup {NoPeer}]
    <3>1. CASE UNCHANGED <<interest, conn_a, asked>>
      BY <1>0, <3>1
    <3>2. CASE U!Serve(conn_a[at], at)
      <4>1. \/ asked' = asked \ {conn_a[at]} /\ UNCHANGED <<interest, conn_a>>
            \/ /\ interest' = [interest EXCEPT ![conn_a[at]] = "none"]
               /\ conn_a' = [conn_a EXCEPT ![at] = NoPeer] /\ asked' = asked
        BY <3>2 DEF U!Serve
      <4>2. QED
        BY <1>0, <4>1
    <3>3. QED
      BY <1>4, <3>1, <3>2 DEF U!SelectSlot
  <2>5. nReady' \in Nat /\ nReady' <= Cardinality(SockPeers) + 1
    BY <1>0, <1>a, <2>2, <2>3
  <2>6. at' \in U!Slots \cup {0, Size + 1} /\ ready' \subseteq SockPeers \cup {NoPeer}
    BY <1>0, <1>a, <2>1, <2>3
  <2>7. QED
    BY <1>0, <2>1, <2>4, <2>5, <2>6 DEF SockTypes
<1>5. CASE U!EpollAccept
  <2>1. UNCHANGED <<kind, nReady, other, asked, asks, conn_a>> /\ ready' = ready \ {NoPeer} /\ at' \in {0, at}
    BY <1>5, <1>a DEF U!EpollAccept
  <2>2. backlog' \in Seq(SockPeers) /\ interest' \in [SockPeers -> {"none", "in", "out"}]
    <3>1. CASE UNCHANGED <<backlog, interest>>
      BY <1>0, <3>1
    <3>2. CASE backlog # <<>> /\ backlog' = Tail(backlog) /\ interest' = [interest EXCEPT ![Head(backlog)] = "in"]
      <4>1. Head(backlog) \in SockPeers /\ Tail(backlog) \in Seq(SockPeers)
        BY <1>0, <3>2
      <4>2. QED
        BY <1>0, <3>2, <4>1
    <3>3. QED
      BY <1>5, <3>1, <3>2 DEF U!EpollAccept
  <2>3. QED
    BY <1>0, <2>1, <2>2 DEF SockTypes
<1>6. ASSUME NEW c \in SockPeers, U!EpollEvent(c)
      PROVE  SockTypes'
  <2>1. UNCHANGED <<kind, nReady, backlog, other, asks, conn_a>> /\ ready' = ready \ {c} /\ at' \in {0, at}
    BY <1>6, <1>a DEF U!EpollEvent
  <2>2. asked' \in {asked, asked \ {c}}
    BY <1>6 DEF U!EpollEvent
  <2>3. \E x \in {"none", "in", "out"} : interest' = [interest EXCEPT ![c] = x]
    BY <1>0, <1>6 DEF U!EpollEvent
  <2>4. interest' \in [SockPeers -> {"none", "in", "out"}]
    BY <1>0, <2>3
  <2>5. QED
    BY <1>0, <2>1, <2>2, <2>4 DEF SockTypes
<1>7. CASE UNCHANGED sockets
  BY <1>0, <1>7 DEF sockets, SockTypes
<1>8. QED
  BY <1>1, <1>2, <1>3, <1>4, <1>5, <1>6, <1>7 DEF U!Next, U!Serves

\* A step keeps who waits, and how far the server is.
LEMMA SockStageStep ==
  ASSUME SockInv, [U!Next]_sockets
  PROVE  SockStages'
<1>0. /\ backlog \in Seq(SockPeers) /\ Len(backlog) \in Nat
      /\ \A i \in 1 .. Len(backlog) : backlog[i] \in SockPeers
      /\ other \in [SockPeers -> {"away", "up", "gone"}]
      /\ interest \in [SockPeers -> {"none", "in", "out"}]
      /\ nReady \in Nat /\ ready \subseteq SockPeers \cup {NoPeer}
  BY DEF SockInv, SockTypes
<1>a. /\ Size \in Nat /\ Size > 0 /\ U!Slots = 1 .. Size
      /\ U!Waiting = 0 /\ U!Accepting = Size + 1 /\ U!Listener = NoPeer
      /\ 0 \notin U!Slots /\ Size + 1 \notin U!Slots /\ NoPeer \notin SockPeers
  BY SockBounds
<1>b. /\ \A i, j \in 1 .. Len(backlog) : backlog[i] = backlog[j] => i = j
      /\ \A i \in 1 .. Len(backlog) : interest[backlog[i]] = "none" /\ other[backlog[i]] # "away"
      /\ \A c \in SockPeers : other[c] = "away" => interest[c] = "none"
      /\ U!Udp => backlog = <<>> /\ \A c \in SockPeers : other[c] # "away"
      /\ (U!Selects /\ at = Size + 1 /\ NoPeer \in ready) => backlog # <<>>
      /\ ~U!Selects => \A c \in ready \cap SockPeers : interest[c] # "none"
      /\ at \in U!Slots => nReady >= 1
      /\ at = 0 => ready = {}
  BY DEF SockInv, SockStages
<1>k. kind' = kind => (U!Udp' <=> U!Udp) /\ (U!Selects' <=> U!Selects)
  BY DEF U!Udp, U!Selects
<1>t. ASSUME backlog # <<>>, backlog' = Tail(backlog)
      PROVE  /\ Len(backlog') = Len(backlog) - 1 /\ Len(backlog) >= 1 /\ Head(backlog) = backlog[1]
             /\ \A i \in 1 .. Len(backlog') : backlog'[i] = backlog[i + 1]
             /\ \A i \in 1 .. Len(backlog') : backlog'[i] # Head(backlog)
             /\ \A i, j \in 1 .. Len(backlog') : backlog'[i] = backlog'[j] => i = j
  <2>1. /\ Len(backlog') = Len(backlog) - 1 /\ Len(backlog) >= 1 /\ Head(backlog) = backlog[1]
        /\ \A i \in 1 .. Len(backlog') : backlog'[i] = backlog[i + 1]
    BY <1>0, <1>t
  <2>2. QED
    BY <1>0, <1>b, <2>1
<1>h. ASSUME backlog # <<>>, backlog' = Tail(backlog), interest' = [interest EXCEPT ![Head(backlog)] = "in"],
             UNCHANGED <<kind, other>>
      PROVE  /\ \A i \in 1 .. Len(backlog') : interest'[backlog'[i]] = "none" /\ other'[backlog'[i]] # "away"
             /\ \A c \in SockPeers : other'[c] = "away" => interest'[c] = "none"
             /\ U!Udp' => backlog' = <<>> /\ \A c \in SockPeers : other'[c] # "away"
  <2>1. Head(backlog) \in SockPeers /\ other[Head(backlog)] # "away"
    BY <1>0, <1>b, <1>h, <1>t
  <2>2. \A c \in SockPeers : c # Head(backlog) => interest'[c] = interest[c]
    BY <1>0, <1>h
  <2>3. \A i \in 1 .. Len(backlog') : backlog'[i] # Head(backlog) /\ \E j \in 1 .. Len(backlog) : backlog'[i] = backlog[j]
    BY <1>0, <1>h, <1>t
  <2>4. \A i \in 1 .. Len(backlog') : interest'[backlog'[i]] = "none" /\ other'[backlog'[i]] # "away"
    BY <1>0, <1>b, <1>h, <2>2, <2>3
  <2>5. \A c \in SockPeers : other'[c] = "away" => interest'[c] = "none"
    BY <1>b, <1>h, <2>1, <2>2
  <2>6. ~U!Udp'
    BY <1>b, <1>h, <1>k
  <2>7. QED
    BY <2>4, <2>5, <2>6
<1>1. ASSUME NEW c \in SockPeers, U!Connect(c)
      PROVE  SockStages'
  <2>1. UNCHANGED <<kind, interest, conn_a, nReady, ready, at>> /\ other[c] = "away"
        /\ other' = [other EXCEPT ![c] = "up"] /\ backlog' = Append(backlog, c)
    BY <1>1 DEF U!Connect, U!server
  <2>2. interest[c] = "none" /\ ~U!Udp /\ \A i \in 1 .. Len(backlog) : backlog[i] # c
    BY <1>b, <2>1
  <2>3. /\ Len(backlog') = Len(backlog) + 1 /\ backlog'[Len(backlog) + 1] = c
        /\ \A i \in 1 .. Len(backlog) : backlog'[i] = backlog[i]
    BY <1>0, <2>1
  <2>4. \A i, j \in 1 .. Len(backlog') : backlog'[i] = backlog'[j] => i = j
    BY <1>0, <1>b, <2>2, <2>3
  <2>5. other'[c] = "up" /\ \A d \in SockPeers \ {c} : other'[d] = other[d]
    BY <1>0, <2>1
  <2>6. \A i \in 1 .. Len(backlog') : interest'[backlog'[i]] = "none" /\ other'[backlog'[i]] # "away"
    BY <1>0, <1>b, <2>1, <2>2, <2>3, <2>5
  <2>7. \A d \in SockPeers : other'[d] = "away" => interest'[d] = "none"
    BY <1>b, <2>1, <2>2
  <2>8. backlog' # <<>>
    BY <1>0, <2>3
  <2>9. QED
    BY <1>b, <1>k, <2>1, <2>2, <2>4, <2>6, <2>7, <2>8 DEF SockStages, U!Slots
<1>2. ASSUME NEW c \in SockPeers, U!Ask(c) \/ U!Close(c)
      PROVE  SockStages'
  <2>1. UNCHANGED <<kind, interest, conn_a, nReady, ready, at, backlog>>
    BY <1>2 DEF U!Ask, U!Close, U!server
  <2>2. \A d \in SockPeers : other'[d] = "away" <=> other[d] = "away"
    BY <1>0, <1>2 DEF U!Ask, U!Close
  <2>3. QED
    BY <1>0, <1>b, <1>k, <2>1, <2>2 DEF SockStages, U!Slots
<1>3. CASE U!Wait
  <2>1. UNCHANGED <<backlog, other, asked, asks, kind, interest, conn_a>> /\ at' = Size + 1
        /\ ready' \subseteq U!Pending
    BY <1>3, <1>a DEF U!Wait, U!client
  <2>2. NoPeer \in ready' => backlog # <<>>
    BY <1>a, <2>1 DEF U!Pending, U!Readable, U!Writable
  <2>3. \A c \in ready' \cap SockPeers : interest[c] # "none"
    BY <1>a, <2>1 DEF U!Pending, U!Readable, U!Writable
  <2>4. at' \notin U!Slots /\ at' # 0
    BY <1>a, <2>1
  <2>5. QED
    BY <1>b, <1>k, <2>1, <2>2, <2>3, <2>4 DEF SockStages, U!Slots
<1>4. CASE U!SelectAccept
  <2>1. U!Selects /\ at = Size + 1 /\ UNCHANGED <<kind, other, asked, asks>>
    BY <1>4, <1>a DEF U!SelectAccept
  <2>2. /\ nReady' = Cardinality(ready \ {NoPeer}) /\ at' = (IF nReady' = 0 THEN 0 ELSE 1)
        /\ ready' = IF at' = 0 THEN {} ELSE ready
    BY <1>4, <1>a, SockCount DEF U!SelectAccept
  <2>3. nReady' \in Nat
    BY <1>0, <2>2, ReadyIsCounted
  <2>4. at' # Size + 1 /\ (at' \in U!Slots => nReady' >= 1) /\ (at' = 0 => ready' = {})
    BY <1>a, <2>2, <2>3
  <2>5. CASE NoPeer \in ready
    <3>1. backlog # <<>> /\ backlog' = Tail(backlog) /\ interest' = [interest EXCEPT ![Head(backlog)] = "in"]
      BY <1>4, <1>a, <1>b, <2>1, <2>5 DEF U!SelectAccept
    <3>2. QED
      BY <1>h, <1>k, <1>t, <2>1, <2>4, <3>1 DEF SockStages, U!Slots
  <2>6. CASE NoPeer \notin ready
    <3>1. UNCHANGED <<backlog, interest>>
      BY <1>4, <1>a, <2>6 DEF U!SelectAccept
    <3>2. QED
      BY <1>b, <1>k, <2>1, <2>4, <3>1 DEF SockStages, U!Slots
  <2>7. QED
    BY <2>5, <2>6
<1>5. CASE U!SelectSlot
  <2>1. U!Selects /\ at \in U!Slots /\ UNCHANGED <<kind, backlog, other, asks>>
    BY <1>5 DEF U!SelectSlot
  <2>2. nReady' \in {nReady, nReady - 1}
        /\ at' = (IF nReady' = 0 \/ at = Size THEN 0 ELSE at + 1)
        /\ ready' = IF at' = 0 THEN {} ELSE ready
    BY <1>5, <1>a DEF U!SelectSlot
  <2>3. at' # Size + 1 /\ (at' \in U!Slots => nReady' >= 1) /\ (at' = 0 => ready' = {})
    BY <1>0, <1>a, <1>b, <2>1, <2>2
  <2>4. \A c \in SockPeers : interest'[c] \in {interest[c], "none"}
    BY <1>0, <1>5 DEF U!SelectSlot, U!Serve
  <2>5. QED
    BY <1>0, <1>b, <1>k, <2>1, <2>3, <2>4 DEF SockStages, U!Slots
<1>6. CASE U!EpollAccept
  <2>1. ~U!Selects /\ UNCHANGED <<kind, nReady, other, asked, asks, conn_a>> /\ ready' = ready \ {NoPeer}
        /\ at = Size + 1 /\ at' = IF ready' = {} THEN 0 ELSE at
    BY <1>6, <1>a DEF U!EpollAccept
  <2>2. at' \notin U!Slots /\ (at' = 0 => ready' = {})
    BY <1>a, <2>1
  <2>3. CASE UNCHANGED <<backlog, interest>>
    BY <1>b, <1>k, <2>1, <2>2, <2>3 DEF SockStages, U!Slots
  <2>4. CASE backlog # <<>> /\ backlog' = Tail(backlog) /\ interest' = [interest EXCEPT ![Head(backlog)] = "in"]
    <3>1. \A c \in ready' \cap SockPeers : interest'[c] # "none"
      BY <1>0, <1>b, <2>1, <2>4
    <3>2. QED
      BY <1>h, <1>k, <1>t, <2>1, <2>2, <2>4, <3>1 DEF SockStages, U!Slots
  <2>5. QED
    BY <1>6, <2>3, <2>4 DEF U!EpollAccept
<1>7. ASSUME NEW c \in SockPeers, U!EpollEvent(c)
      PROVE  SockStages'
  <2>1. ~U!Selects /\ UNCHANGED <<kind, nReady, backlog, other, asks, conn_a>> /\ ready' = ready \ {c}
        /\ c \in ready /\ at = Size + 1 /\ at' = IF ready' = {} THEN 0 ELSE at
    BY <1>7, <1>a DEF U!EpollEvent
  <2>2. at' \notin U!Slots /\ (at' = 0 => ready' = {})
    BY <1>a, <2>1
  <2>3. interest[c] # "none"
    BY <1>b, <2>1
  <2>4. \A d \in SockPeers \ {c} : interest'[d] = interest[d]
    BY <1>0, <1>7 DEF U!EpollEvent
  <2>5. \A i \in 1 .. Len(backlog) : backlog[i] # c
    BY <1>b, <2>3
  <2>6. \A i \in 1 .. Len(backlog) : interest'[backlog[i]] = "none"
    BY <1>0, <1>b, <2>4, <2>5
  <2>7. \A d \in SockPeers : other[d] = "away" => interest'[d] = "none"
    BY <1>b, <2>3, <2>4
  <2>8. \A d \in ready' \cap SockPeers : interest'[d] # "none"
    BY <1>b, <2>1, <2>4
  <2>9. QED
    BY <1>b, <1>k, <2>1, <2>2, <2>6, <2>7, <2>8 DEF SockStages, U!Slots
<1>8. CASE UNCHANGED sockets
  BY <1>8, <1>b, <1>k DEF sockets, SockStages, U!Slots
<1>9. QED
  BY <1>1, <1>2, <1>3, <1>4, <1>5, <1>6, <1>7, <1>8 DEF U!Next, U!Serves

\* A step keeps the table and what is watched the same.
LEMMA SockTableStep ==
  ASSUME SockInv, [U!Next]_sockets
  PROVE  U!TableIsWatched'
<1> DEFINE Wants == {c \in SockPeers : interest[c] # "none"}
           Table == {conn_a[i] : i \in U!Slots} \ {NoPeer}
           EachOnce == \A i, j \in U!Slots : conn_a[i] = conn_a[j] /\ conn_a[i] # NoPeer => i = j
<1>0. kind' = kind
  BY DEF U!Next, U!Serves, U!Connect, U!Ask, U!Close, U!server, U!Wait, U!SelectAccept, U!SelectSlot,
         U!EpollAccept, U!EpollEvent, sockets
<1>1. (U!Udp' <=> U!Udp) /\ (U!Selects' <=> U!Selects)
  BY <1>0 DEF U!Udp, U!Selects
<1> SUFFICES ASSUME U!Selects, kind.local => U!Udp
             PROVE  Wants' = Table' /\ EachOnce'
  BY <1>0, <1>1 DEF U!TableIsWatched, U!Slots
<1>2. Wants = Table /\ EachOnce
  BY DEF SockInv, U!TableIsWatched
<1>3. /\ backlog \in Seq(SockPeers) /\ interest \in [SockPeers -> {"none", "in", "out"}]
      /\ conn_a \in [U!Slots -> SockPeers \cup {NoPeer}]
  BY DEF SockInv, SockTypes
<1>a. U!Accepting = Size + 1 /\ U!Listener = NoPeer /\ NoPeer \notin SockPeers
  BY SockBounds
<1>4. CASE UNCHANGED <<interest, conn_a>>
  BY <1>2, <1>4 DEF U!Slots
<1>5. CASE U!SelectAccept /\ NoPeer \in ready
  <2>1. backlog # <<>>
    BY <1>5, <1>a DEF U!SelectAccept, SockInv, SockStages
  <2>2. PICK c \in SockPeers : c = Head(backlog) /\ interest[c] = "none"
    <3>1. Head(backlog) = backlog[1] /\ Len(backlog) >= 1 /\ Len(backlog) \in Nat /\ Head(backlog) \in SockPeers
      BY <1>3, <2>1
    <3>2. interest[backlog[1]] = "none"
      BY <3>1 DEF SockInv, SockStages
    <3>3. QED
      BY <3>1, <3>2
  <2>3. U!Taken = U!TakenByIn
    <3>1. ~U!Udp
      BY <2>1 DEF SockInv, SockStages
    <3>2. QED
      BY <3>1 DEF U!Taken
  <2>4. c \notin Table
    BY <1>2, <2>2
  <2>5. \A i \in U!Slots : conn_a[i] # c
    BY <1>a, <2>4
  <2>6. PICK k \in U!Slots : conn_a[k] = NoPeer /\ U!TakenByIn = {k}
    BY <1>2, <2>5, SomeSlotIsFree DEF SockInv
  <2>7. interest' = [interest EXCEPT ![c] = "in"]
        /\ conn_a' = [i \in U!Slots |-> IF i = k THEN c ELSE conn_a[i]]
    BY <1>5, <1>a, <2>2, <2>3, <2>6 DEF U!SelectAccept
  <2>8. conn_a'[k] = c /\ \A i \in U!Slots : i # k => conn_a'[i] = conn_a[i]
    BY <2>7
  <2>9. Wants' = Wants \cup {c}
    BY <1>3, <2>2, <2>7
  <2>10. Table' = Table \cup {c}
    <3>1. U!Slots' = U!Slots
      BY DEF U!Slots
    <3>2. QED
      BY <1>a, <2>6, <2>8, <3>1
  <2>11. EachOnce'
    <3>1. U!Slots' = U!Slots
      BY DEF U!Slots
    <3>2. QED
      BY <1>2, <2>5, <2>8, <3>1
  <2>12. QED
    BY <1>2, <2>9, <2>10, <2>11
<1>6. CASE U!SelectSlot /\ ~UNCHANGED <<interest, conn_a>>
  <2>1. /\ at \in U!Slots /\ conn_a[at] \in ready \ {NoPeer}
        /\ interest' = [interest EXCEPT ![conn_a[at]] = "none"]
        /\ conn_a' = [conn_a EXCEPT ![at] = NoPeer]
    BY <1>6, <1>a DEF U!SelectSlot, U!Serve
  <2>2. PICK c \in SockPeers : c = conn_a[at]
    BY <1>3, <2>1
  <2>3. conn_a'[at] = NoPeer /\ \A i \in U!Slots : i # at => conn_a'[i] = conn_a[i] /\ conn_a[i] # c
    BY <1>2, <1>3, <2>1, <2>2
  <2>4. Wants' = Wants \ {c}
    BY <1>3, <2>1, <2>2
  <2>5. U!Slots' = U!Slots
    BY DEF U!Slots
  <2>6. Table' = Table \ {c}
    BY <1>a, <2>1, <2>2, <2>3, <2>5
  <2>7. EachOnce'
    BY <1>2, <2>3, <2>5
  <2>8. QED
    BY <1>2, <2>4, <2>6, <2>7
<1>7. UNCHANGED <<interest, conn_a>> \/ (U!SelectAccept /\ NoPeer \in ready) \/ U!SelectSlot
  BY <1>a DEF U!Next, U!Serves, U!Connect, U!Ask, U!Close, U!server, U!Wait, U!SelectAccept,
         U!EpollAccept, U!EpollEvent, sockets
<1>8. QED
  BY <1>4, <1>5, <1>6, <1>7

\* The servers begin with an empty table, or with all the sockets.
LEMMA SockBegins ==
  ASSUME U!Init
  PROVE  SockInv
<1>a. /\ Size \in Nat /\ Size > 0 /\ U!Slots = 1 .. Size /\ U!Waiting = 0 /\ 0 \notin U!Slots
      /\ MaxAsks \in Nat /\ Cardinality(SockPeers) \in Nat
  BY SockBounds
<1>1. /\ kind \in Kinds /\ backlog = <<>> /\ asked = {} /\ asks = 0 /\ nReady = 0 /\ ready = {} /\ at = 0
  BY <1>a DEF U!Init
<1>2. CASE U!StartTcp /\ ~U!Udp
  <2>1. /\ interest = [c \in SockPeers |-> "none"] /\ other = [c \in SockPeers |-> "away"]
        /\ conn_a = [i \in U!Slots |-> NoPeer]
    BY <1>2 DEF U!StartTcp
  <2>2. SockTypes
    BY <1>1, <1>a, <2>1 DEF SockTypes
  <2>3. SockStages
    BY <1>1, <1>2, <1>a, <2>1 DEF SockStages
  <2>4. U!TableIsWatched
    BY <2>1 DEF U!TableIsWatched
  <2>5. QED
    BY <2>2, <2>3, <2>4 DEF SockInv
<1>3. CASE U!StartUdp
  <2>1. /\ interest = [c \in SockPeers |-> "in"] /\ other = [c \in SockPeers |-> "up"]
        /\ conn_a = [i \in U!Slots |-> IF i <= Cardinality(SockPeers) THEN U!SetToSeq(SockPeers)[i] ELSE NoPeer]
    BY <1>3, SockCount DEF U!StartUdp
  <2>2. /\ conn_a \in [U!Slots -> SockPeers \cup {NoPeer}]
        /\ SockPeers = {conn_a[i] : i \in U!Slots} \ {NoPeer}
        /\ \A i, j \in U!Slots : conn_a[i] = conn_a[j] /\ conn_a[i] # NoPeer => i = j
    BY <2>1, TableOfAll
  <2>3. SockTypes
    <3>1. interest \in [SockPeers -> {"none", "in", "out"}] /\ other \in [SockPeers -> {"away", "up", "gone"}]
      BY <2>1
    <3>2. QED
      BY <1>1, <1>a, <2>2, <3>1 DEF SockTypes
  <2>4. SockStages
    BY <1>1, <1>a, <2>1 DEF SockStages
  <2>5. {c \in SockPeers : interest[c] # "none"} = SockPeers
    BY <2>1
  <2>6. U!TableIsWatched
    BY <2>2, <2>5 DEF U!TableIsWatched
  <2>7. QED
    BY <2>3, <2>4, <2>6 DEF SockInv
<1>4. QED
  BY <1>2, <1>3 DEF U!Init

\* What the types and the stages say in the words of the module.
LEMMA SockImplies ==
  ASSUME SockInv
  PROVE  U!TypeOK
<1>0. SockTypes /\ SockStages
  BY DEF SockInv
<1>1. /\ kind \in Kinds
      /\ other \in [SockPeers -> {"away", "up", "gone"}]
      /\ asked \subseteq SockPeers /\ asks \in 0 .. MaxAsks
      /\ interest \in [SockPeers -> {"none", "in", "out"}]
      /\ conn_a \in [U!Slots -> SockPeers \cup {NoPeer}]
      /\ ready \subseteq SockPeers \cup {U!Listener}
      /\ (at = U!Waiting => ready = {})
  BY <1>0, SockBounds DEF SockTypes, SockStages
<1>2. U!IsInjective(backlog) /\ U!ToSet(backlog) \subseteq SockPeers
  BY <1>0 DEF SockTypes, SockStages, U!IsInjective, U!ToSet
<1>3. nReady \in 0 .. U!Cardinality(SockPeers) + 1
  BY <1>0, SockBounds, SockCount DEF SockTypes
<1>4. at \in U!Slots \cup {U!Waiting, U!Accepting}
  BY <1>0, SockBounds DEF SockTypes
<1>5. QED
  BY <1>1, <1>2, <1>3, <1>4 DEF U!TypeOK

-----------------------------------------------------------------------------
(* The programs together.                                                   *)

\* A step of one program is a step of each of them, or leaves it alone.
LEMMA ServicesSteps ==
  ASSUME [ServicesNext]_all
  PROVE  [Next]_vars /\ [S!Next]_http /\ [U!Next]_sockets
  BY DEF ServicesNext, Manager, Http, Socket, all

\* AppManager supervises among the others as it does alone: a stopped program stays
\* down, none runs twice, and the exit command leaves nothing of the table running.
THEOREM ManagerAmongServices == ServicesSpec => [](TypeOK /\ Supervises)
<1>1. ServicesInit => Init
  BY DEF ServicesInit
<1>2. [ServicesNext]_all => [Next]_vars
  BY ServicesSteps
<1>3. ServicesSpec => ServicesInit /\ [][ServicesNext]_all
  BY PTL DEF ServicesSpec
<1>4. ServicesSpec => Spec
  BY <1>1, <1>2, <1>3, PTL DEF Spec
<1>5. Typed => TypeOK
  BY DEF Typed
<1>6. QED
  BY <1>4, <1>5, ManagerTypeCorrect, SupervisionHolds, PTL

\* SockServ: the descriptors, the clients and their handlers.
THEOREM HttpInvariant == ServicesSpec => [](HttpTypes /\ HttpStages /\ HttpOwns)
<1>1. ServicesInit => HttpTypes /\ HttpStages /\ HttpOwns
  BY HttpBegins, InstanceAssumption DEF ServicesInit
<1>2. HttpTypes /\ HttpStages /\ HttpOwns /\ [ServicesNext]_all => (HttpTypes /\ HttpStages /\ HttpOwns)'
  BY ServicesSteps, HttpTypeStep, HttpStageStep, HttpOwnStep, InstanceAssumption
<1>3. ServicesSpec => ServicesInit /\ [][ServicesNext]_all
  BY PTL DEF ServicesSpec
<1>4. QED
  BY <1>1, <1>2, <1>3, PTL

\* The servers of ut_socket: their backlog, table and events.
THEOREM SockInvariant == ServicesSpec => []SockInv
<1>1. ServicesInit => SockInv
  BY SockBegins DEF ServicesInit
<1>2. SockInv /\ [ServicesNext]_all => SockInv'
  BY ServicesSteps, SockTypeStep, SockStageStep, SockTableStep DEF SockInv
<1>3. ServicesSpec => ServicesInit /\ [][ServicesNext]_all
  BY PTL DEF ServicesSpec
<1>4. QED
  BY <1>1, <1>2, <1>3, PTL

\* SockServ closes another's descriptor only where Stop() has met a handler that was
\* closing its client; until then it selects just the waiting clients, and never deletes
\* one whose handler runs.  The table of a server of ut_socket holds each connection
\* that it watches once, and no other.
THEOREM ServersKeepSockets == ServicesSpec => []SocketsAreKept
<1>1. HttpTypes /\ HttpStages /\ HttpOwns =>
        S!ClosesItsOwn /\ S!WaitingAreSelected /\ S!DeletesNoRunning
  BY HttpImplies
<1>2. SockInv => U!TableIsWatched
  BY DEF SockInv
<1>3. HttpTypes /\ HttpStages /\ HttpOwns /\ SockInv => SocketsAreKept
  BY <1>1, <1>2 DEF SocketsAreKept
<1>4. QED
  BY <1>3, HttpInvariant, SockInvariant, PTL

\* Every variable of the three programs keeps its type.
THEOREM ServicesTypeCorrect == ServicesSpec => []TypesOK
<1>1. TypeOK /\ HttpTypes /\ HttpStages /\ HttpOwns /\ SockInv => TypesOK
  BY HttpImplies, SockImplies DEF TypesOK
<1>2. QED
  BY <1>1, ManagerAmongServices, HttpInvariant, SockInvariant, PTL
=============================================================================
