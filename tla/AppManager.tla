------------------------------ MODULE AppManager ------------------------------
(***************************************************************************)
(* AppManager: a table of supervised programs, the thread that executes    *)
(* the commands read from a fifo and the thread that looks at every task   *)
(* every two seconds.  Every operation on the table holds the table's      *)
(* mutex from its first step to its last, polls and waits included, so at  *)
(* most one job is under way; what interleaves with it is the programs,    *)
(* which come up, die and are killed when they like.                       *)
(* A program is running when it holds the write lock on its pid file.      *)
(***************************************************************************)
EXTENDS Integers, SequencesExt

CONSTANTS Apps,      \* program names
          Conf,      \* the configuration file: a sequence of lines
          MaxTasks,  \* bound on the table's length
          MaxFresh,  \* bound on launched instances that hold no lock yet
          MaxCmds,   \* bound on the commands read from the fifo
          MaxFaults  \* bound on crashes of programs and of the manager

BadLine == "bad line"

ASSUME ConfAssumption == Conf \in Seq(Apps \cup {BadLine})
ASSUME BoundAssumption == /\ MaxTasks \in Nat /\ MaxFresh \in Nat \ {0}
                          /\ MaxCmds \in Nat /\ MaxFaults \in Nat

VARIABLES tasks,   \* the table, in the order of the vector
          proc,    \* per program: its instances
          job,     \* the operation that holds the table's mutex
          life,    \* the manager's own process
          cmds,    \* commands read so far
          faults,  \* crashes so far
          twins,   \* history: names that have been in the table twice
          astray   \* history: names with a launched instance nobody waits for

vars == <<tasks, proc, job, life, cmds, faults, twins, astray>>

TaskStates == {"min", "started", "failed", "stoped", "running", "abort"}
Task == [app: Apps, st: TaskStates]
NewTask(a) == [app |-> a, st |-> "min"]
Step == [do: {"start", "stop", "monitor"}, i: Nat \ {0}]
NoJob == [todo |-> <<>>, at |-> "begin", chain |-> FALSE, exits |-> FALSE]
Down == [fresh |-> 0, up |-> FALSE, doomed |-> FALSE]

-----------------------------------------------------------------------------
(* The table *)

\* The constructor reads the file up to the first line that makes no task.
LoadConf ==
    LET bad == {k \in DOMAIN Conf : Conf[k] = BadLine}
        n == IF bad = {} THEN Len(Conf) ELSE Min(bad) - 1
    IN  [k \in 1 .. n |-> NewTask(Conf[k])]

TwinsOf(tbl) == {a \in Apps : \E i, j \in DOMAIN tbl :
                                 i # j /\ tbl[i].app = a /\ tbl[j].app = a}

\* Every command that names a program works on the first task of that name.
FirstOf(a, i) == /\ i \in DOMAIN tasks /\ tasks[i].app = a
                 /\ \A k \in 1 .. i - 1 : tasks[k].app # a

ForAll(tbl, do) == [k \in DOMAIN tbl |-> [do |-> do, i |-> k]]
Job(todo, chain, exits) ==
    IF todo = <<>> THEN NoJob
    ELSE [todo |-> todo, at |-> "begin", chain |-> chain, exits |-> exits]

Free == job.todo = <<>>

-----------------------------------------------------------------------------
(* Life of the manager: the constructor starts every task of the file, then *)
(* the two threads run.                                                      *)

Boot ==
    /\ life \in {"exited", "dead"}
    /\ tasks' = LoadConf
    /\ twins' = TwinsOf(LoadConf)
    /\ job' = Job(ForAll(LoadConf, "start"), TRUE, FALSE)
    /\ life' = "boot"
    /\ UNCHANGED <<proc, cmds, faults, astray>>

Serve ==
    /\ life = "boot" /\ Free
    /\ life' = "run"
    /\ UNCHANGED <<tasks, proc, job, cmds, faults, twins, astray>>

\* exit(0) after stopAll: the monitor may have taken the mutex in between.
Exit ==
    /\ life = "exiting"
    /\ life' = "exited"
    /\ job' = NoJob
    /\ UNCHANGED <<tasks, proc, cmds, faults, twins, astray>>

Abandoned(p) == {a \in Apps : p[a].fresh > 0}

ManagerDies ==
    /\ life \in {"boot", "run"} /\ faults < MaxFaults
    /\ life' = "dead"
    /\ job' = NoJob
    /\ faults' = faults + 1
    /\ astray' = astray \cup Abandoned(proc)
    /\ UNCHANGED <<tasks, proc, cmds, twins>>

-----------------------------------------------------------------------------
(* IpcThreadProcess: one line of the fifo is one command; it waits for the   *)
(* table's mutex and for the end of its job before it reads the next.        *)

Reads == life = "run" /\ Free /\ cmds < MaxCmds /\ cmds' = cmds + 1

Add(a) ==
    /\ Reads
    /\ Len(tasks) < MaxTasks
    /\ tasks' = Append(tasks, NewTask(a))
    /\ twins' = twins \cup TwinsOf(tasks')
    /\ UNCHANGED <<proc, job, life, faults, astray>>

\* The task object is deleted; the program it started goes on running.
Del(a) ==
    /\ Reads
    /\ \E i \in DOMAIN tasks : FirstOf(a, i) /\ tasks' = RemoveAt(tasks, i)
    /\ UNCHANGED <<proc, job, life, faults, twins, astray>>

Command(todo, chain, exits) ==
    /\ Reads
    /\ job' = Job(todo, chain, exits)
    /\ life' = IF exits /\ todo = <<>> THEN "exiting" ELSE life
    /\ UNCHANGED <<tasks, proc, faults, twins, astray>>

One(i, do) == <<[do |-> do, i |-> i]>>

Start(a)   == \E i \in DOMAIN tasks : FirstOf(a, i) /\ Command(One(i, "start"), FALSE, FALSE)
Stop(a)    == \E i \in DOMAIN tasks : FirstOf(a, i) /\ Command(One(i, "stop"), FALSE, FALSE)
Restart(a) == \E i \in DOMAIN tasks :
                 FirstOf(a, i) /\ Command(One(i, "stop") \o One(i, "start"), FALSE, FALSE)
StartAll   == Command(ForAll(tasks, "start"), TRUE, FALSE)
StopAll    == Command(ForAll(tasks, "stop"), FALSE, FALSE)
\* The loop returns from its first iteration: only the first task is restarted.
RestartAll == tasks # <<>> /\ Command(One(1, "stop") \o One(1, "start"), FALSE, FALSE)
\* Mutant: only the first task is stopped before exit(0).
ExitCmd_First == tasks # <<>> /\ Command(One(1, "stop"), FALSE, TRUE)
ExitCmd    == Command(ForAll(tasks, "stop"), FALSE, TRUE)

\* MonitorProdess: one pass over the table.
MonitorAll ==
    /\ life \in {"run", "exiting"} /\ Free
    /\ tasks # <<>>
    /\ job' = Job(ForAll(tasks, "monitor"), FALSE, FALSE)
    /\ UNCHANGED <<tasks, proc, life, cmds, faults, twins, astray>>

-----------------------------------------------------------------------------
(* The steps of the job that holds the mutex *)

Now == Head(job.todo)
App == tasks[Now.i].app
Does(do, at) == ~Free /\ Now.do = do /\ job.at = at
Is(st) == tasks' = [tasks EXCEPT ![Now.i].st = st]

\* The end of one step; startAll returns at the first task that fails.
Ends(ok) ==
    LET rest == IF job.chain /\ ~ok THEN <<>> ELSE Tail(job.todo) IN
    /\ job' = Job(rest, job.chain, job.exits)
    /\ life' = IF job.exits /\ rest = <<>> THEN "exiting" ELSE life

Kept == UNCHANGED <<cmds, faults, twins>>

\* start(): already running, or the command line cannot be executed.
StartFinds ==
    /\ Does("start", "begin") /\ proc[App].up
    /\ Is("started") /\ Ends(TRUE)
    /\ UNCHANGED <<proc, astray>> /\ Kept

StartFails ==
    /\ Does("start", "begin") /\ ~proc[App].up
    /\ Is("failed") /\ Ends(FALSE)
    /\ UNCHANGED <<proc, astray>> /\ Kept

\* Mutant: the lock is not looked at before the program is launched.
Launch_Blindly ==
    /\ Does("start", "begin")
    /\ proc[App].fresh < MaxFresh
    /\ proc' = [proc EXCEPT ![App].fresh = @ + 1]
    /\ job' = [job EXCEPT !.at = "poll"]
    /\ UNCHANGED <<tasks, life, astray>> /\ Kept

Launch ==
    /\ Does("start", "begin") /\ ~proc[App].up
    /\ proc[App].fresh < MaxFresh
    /\ proc' = [proc EXCEPT ![App].fresh = @ + 1]
    /\ job' = [job EXCEPT !.at = "poll"]
    /\ UNCHANGED <<tasks, life, astray>> /\ Kept

\* A hundred looks at the lock, ten milliseconds apart.
PollSees ==
    /\ Does("start", "poll") /\ proc[App].up
    /\ Is("started") /\ Ends(TRUE)
    /\ UNCHANGED <<proc, astray>> /\ Kept

PollGivesUp ==
    /\ Does("start", "poll") /\ ~proc[App].up
    /\ Is("failed") /\ Ends(FALSE)
    /\ astray' = IF proc[App].fresh > 0 THEN astray \cup {App} ELSE astray
    /\ UNCHANGED proc /\ Kept

\* Mutant: only the instance that holds the lock is signalled.
StopSignals_Holder ==
    /\ Does("stop", "begin")
    /\ \E obeys \in BOOLEAN :
          proc' = [proc EXCEPT ![App].doomed = @ \/ (obeys /\ proc[App].up)]
    /\ job' = [job EXCEPT !.at = "drain"]
    /\ UNCHANGED <<tasks, life, astray>> /\ Kept

\* stop(): killall ends the instances that are still starting; the one that
\* holds the lock may take its time, or ignore the signal.
StopSignals ==
    /\ Does("stop", "begin")
    /\ \E obeys \in BOOLEAN :
          proc' = [proc EXCEPT ![App].fresh = 0,
                               ![App].doomed = @ \/ (obeys /\ proc[App].up)]
    /\ astray' = astray \ {App}
    /\ job' = [job EXCEPT !.at = "drain"]
    /\ UNCHANGED <<tasks, life>> /\ Kept

StopSees ==
    /\ Does("stop", "drain") /\ ~proc[App].up
    /\ Is("stoped") /\ Ends(TRUE)
    /\ UNCHANGED <<proc, astray>> /\ Kept

\* killall -KILL, and the state is set without another look.
StopForces ==
    /\ Does("stop", "drain")
    /\ proc' = [proc EXCEPT ![App].fresh = 0, ![App].doomed = proc[App].up]
    /\ astray' = astray \ {App}
    /\ Is("stoped") /\ Ends(TRUE)
    /\ Kept

\* monitor(): a task that was stopped or has failed is left alone.
MonitorSkips ==
    /\ Does("monitor", "begin") /\ tasks[Now.i].st \in {"stoped", "failed"}
    /\ Ends(TRUE)
    /\ UNCHANGED <<tasks, proc, astray>> /\ Kept

MonitorFindsUp ==
    /\ Does("monitor", "begin") /\ tasks[Now.i].st \notin {"stoped", "failed"}
    /\ proc[App].up
    /\ Is("running") /\ Ends(TRUE)
    /\ UNCHANGED <<proc, astray>> /\ Kept

\* Mutant: the monitor counts the death and does not start the program.
MonitorFindsDown_Counts ==
    /\ Does("monitor", "begin") /\ tasks[Now.i].st \notin {"stoped", "failed"}
    /\ ~proc[App].up
    /\ Is("abort") /\ Ends(TRUE)
    /\ UNCHANGED <<proc, astray>> /\ Kept

MonitorFindsDown ==
    /\ Does("monitor", "begin") /\ tasks[Now.i].st \notin {"stoped", "failed"}
    /\ ~proc[App].up
    /\ Is("abort")
    /\ job' = [job EXCEPT !.todo = <<[Now EXCEPT !.do = "start"]>> \o Tail(@)]
    /\ UNCHANGED <<proc, life, astray>> /\ Kept

JobStep == \/ StartFinds \/ StartFails \/ Launch \/ PollSees \/ PollGivesUp
           \/ StopSignals \/ StopSees \/ StopForces
           \/ MonitorSkips \/ MonitorFindsUp \/ MonitorFindsDown

-----------------------------------------------------------------------------
(* The programs.  At its start a program takes its lock, or exits when an    *)
(* earlier instance does not give it up.                                     *)

World == UNCHANGED <<tasks, job, life, cmds, twins>>
Settled(a) == IF proc'[a].fresh = 0 THEN astray' = astray \ {a} ELSE UNCHANGED astray

Appear(a) ==
    /\ proc[a].fresh > 0 /\ ~proc[a].up
    /\ proc' = [proc EXCEPT ![a] = [fresh |-> @.fresh - 1, up |-> TRUE, doomed |-> FALSE]]
    /\ Settled(a) /\ UNCHANGED faults /\ World

Vanish(a) ==
    /\ proc[a].fresh > 0
    /\ proc' = [proc EXCEPT ![a].fresh = @ - 1]
    /\ Settled(a) /\ UNCHANGED faults /\ World

Dies(a) ==
    /\ proc[a].up /\ proc[a].doomed
    /\ proc' = [proc EXCEPT ![a].up = FALSE, ![a].doomed = FALSE]
    /\ UNCHANGED <<faults, astray>> /\ World

Crash(a) ==
    /\ proc[a].up /\ ~proc[a].doomed /\ faults < MaxFaults
    /\ proc' = [proc EXCEPT ![a].up = FALSE]
    /\ faults' = faults + 1
    /\ UNCHANGED astray /\ World

-----------------------------------------------------------------------------
Init == /\ tasks = LoadConf /\ twins = TwinsOf(LoadConf)
        /\ proc = [a \in Apps |-> Down]
        /\ job = Job(ForAll(LoadConf, "start"), TRUE, FALSE)
        /\ life = "boot" /\ cmds = 0 /\ faults = 0 /\ astray = {}

Ipc == \/ StartAll \/ StopAll \/ RestartAll \/ ExitCmd
       \/ \E a \in Apps : Add(a) \/ Del(a) \/ Start(a) \/ Stop(a) \/ Restart(a)
Programs == \E a \in Apps : Appear(a) \/ Vanish(a) \/ Dies(a) \/ Crash(a)

Next == Boot \/ Serve \/ Exit \/ ManagerDies \/ Ipc \/ MonitorAll \/ JobStep \/ Programs

Spec == Init /\ [][Next]_vars

\* The threads run, a program that was launched comes up or gives up, and a
\* killed one dies; nothing makes commands come or programs crash.
FairSpec == /\ Spec
            /\ WF_vars(Boot) /\ WF_vars(Serve) /\ WF_vars(Exit)
            /\ WF_vars(MonitorAll) /\ WF_vars(JobStep)
            /\ \A a \in Apps : WF_vars(Appear(a) \/ Vanish(a)) /\ WF_vars(Dies(a))

-----------------------------------------------------------------------------
(* Properties *)

TypeOK ==
    /\ tasks \in Seq(Task)
    /\ proc \in [Apps -> [fresh: 0 .. MaxFresh, up: BOOLEAN, doomed: BOOLEAN]]
    /\ job \in [todo: Seq(Step), at: {"begin", "poll", "drain"},
                chain: BOOLEAN, exits: BOOLEAN]
    /\ \A k \in DOMAIN job.todo : job.todo[k].i \in DOMAIN tasks
    /\ life \in {"boot", "run", "exiting", "exited", "dead"}
    /\ cmds \in 0 .. MaxCmds /\ faults \in 0 .. MaxFaults
    /\ twins \subseteq Apps /\ astray \subseteq Apps

Gone(a) == proc[a].fresh = 0 /\ (proc[a].up => proc[a].doomed)
Starting(i) == ~Free /\ Now = [do |-> "start", i |-> i]

\* A stopped task's program stays down: no monitor pass, no other command and
\* no late instance of an earlier start brings it back, unless the name was
\* entered twice (stop() stops only the first of the twins).
StopSticks ==
    \A i \in DOMAIN tasks :
       life # "dead" /\ tasks[i].st = "stoped" /\ tasks[i].app \notin twins /\ ~Starting(i)
          => Gone(tasks[i].app)

\* A second instance of a program is launched only where an earlier start was
\* given up, or the manager died, while its instance had not come up yet.
OneInstance ==
    \A a \in Apps : a \notin astray => proc[a].fresh + (IF proc[a].up THEN 1 ELSE 0) <= 1

\* The exit command leaves no program of the table running, twins included,
\* although the monitor may make one more pass before the process ends.
ExitStopsAll == life = "exited" => \A i \in DOMAIN tasks : Gone(tasks[i].app)

Watched(a) == life = "run" /\ \E i \in DOMAIN tasks :
                 tasks[i].app = a /\ tasks[i].st \notin {"stoped", "failed"}

\* A watched program that is down comes up again, or its start is seen to fail.
DownIsNoticed == \A a \in Apps : (Watched(a) /\ ~proc[a].up) ~> (proc[a].up \/ ~Watched(a))

\* What supervision promises: a stop and the exit command last, and no program
\* runs twice.
Supervises == StopSticks /\ OneInstance /\ ExitStopsAll
=============================================================================
