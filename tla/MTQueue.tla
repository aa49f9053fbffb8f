------------------------------- MODULE MTQueue -------------------------------
(***************************************************************************)
(* app/cppUtils/MTQueue: a deque under one mutex, with one condition       *)
(* variable on which readers wait for an element and writers for room.     *)
(* A step is one critical section of mu: up to a wait, a return, or the    *)
(* unlock that precedes notify_one.  push_front and back()/pop_back() make *)
(* index 1 of q the newest element.                                        *)
(***************************************************************************)
EXTENDS Naturals, Sequences, SequencesExt

CONSTANTS
  Readers, Writers, \* the threads
  MaxCount,         \* maxCount
  MaxMade,          \* bound: no write is called after so many elements
  Calls             \* the operations the threads use

ASSUME MTQueueAssumption ==
  /\ Readers \cap Writers = {}
  /\ MaxCount \in Nat \ {0} /\ MaxMade \in Nat
  /\ Calls \subseteq {"read", "timedRead", "write", "timedWrite", "cycWrite", "clear", "exit"}

VARIABLES
  q,                           \* the deque
  made,                        \* elements written so far: the last one's number
  taken, destroyed, forgotten, \* elements returned, destroyed by destroyOne, cleared
  waitExited,                  \* mIsWaitWasExited
  pc,                          \* what each thread is at
  timed                        \* whether its wait is a wait_for

vars == <<q, made, taken, destroyed, forgotten, waitExited, pc, timed>>

Threads == Readers \cup Writers
Waiters == {t \in Threads : pc[t] = "waiting"}
Content == ToSet(q)

Init ==
  /\ q = <<>> /\ made = 0 /\ taken = {} /\ destroyed = {} /\ forgotten = {}
  /\ waitExited = FALSE
  /\ pc = [t \in Threads |-> "idle"] /\ timed = [t \in Threads |-> FALSE]

Goto(t, to) == pc' = [pc EXCEPT ![t] = to]

\* An idle thread that makes a call, or one that got the mutex back in its wait.
Enters(t, isTimed) ==
  \/ pc[t] = "idle" /\ timed' = [timed EXCEPT ![t] = isTimed]
  \/ pc[t] \in {"woken", "timedOut"} /\ timed[t] = isTimed /\ UNCHANGED timed

\* The bound stops new calls to write, not those under way.
MayWrite(t) == pc[t] = "idle" => made < MaxMade

PushFront == made' = made + 1 /\ q' = <<made + 1>> \o q

TakeBack_KeepsNewest ==
  /\ q # <<>>
  /\ q' = Tail(q) /\ taken' = taken \cup {Head(q)}

TakeBack ==
  /\ q # <<>>
  /\ q' = Front(q) /\ taken' = taken \cup {Last(q)}

\* Out of time and told to exit, a timed call gives up; else it waits (again).
WaitOrGiveUp_Forever(t) == Goto(t, "waiting")

WaitOrGiveUp(t) ==
  Goto(t, IF pc[t] = "timedOut" /\ waitExited THEN "idle" ELSE "waiting")

\* read() and read(tdMsec).
Read(t, isTimed) ==
  /\ (IF isTimed THEN "timedRead" ELSE "read") \in Calls
  /\ Enters(t, isTimed)
  /\ \/ TakeBack /\ Goto(t, "idle")
     \/ q = <<>> /\ WaitOrGiveUp(t) /\ UNCHANGED <<q, taken>>
  /\ UNCHANGED <<made, destroyed, forgotten, waitExited>>

\* write(one, tdMsec).
TimedWrite(t) ==
  /\ "timedWrite" \in Calls
  /\ Enters(t, TRUE) /\ MayWrite(t)
  /\ \/ Len(q) < MaxCount /\ PushFront /\ Goto(t, "notify")
     \/ Len(q) >= MaxCount /\ WaitOrGiveUp(t) /\ UNCHANGED <<q, made>>
  /\ UNCHANGED <<taken, destroyed, forgotten, waitExited>>

Write_AnyRoom(t) ==
  /\ "write" \in Calls /\ pc[t] = "idle" /\ MayWrite(t)
  /\ PushFront /\ Goto(t, "notify")
  /\ UNCHANGED <<taken, destroyed, forgotten, waitExited, timed>>

\* write(one): -1 when full, which changes nothing.
Write(t) ==
  /\ "write" \in Calls /\ pc[t] = "idle" /\ MayWrite(t)
  /\ Len(q) < MaxCount /\ PushFront /\ Goto(t, "notify")
  /\ UNCHANGED <<taken, destroyed, forgotten, waitExited, timed>>

CycWrite_NoPop(t) ==
  /\ "cycWrite" \in Calls /\ pc[t] = "idle" /\ MayWrite(t)
  /\ made' = made + 1
  /\ q' = IF Len(q) >= MaxCount THEN <<made + 1>> \o Tail(q) ELSE <<made + 1>> \o q
  /\ destroyed' = destroyed \cup (IF Len(q) >= MaxCount THEN {Last(q)} ELSE {})
  /\ Goto(t, "notify")
  /\ UNCHANGED <<taken, forgotten, waitExited, timed>>

\* cycWrite: a full queue destroys its oldest element first.
CycWrite(t) ==
  /\ "cycWrite" \in Calls /\ pc[t] = "idle" /\ MayWrite(t)
  /\ made' = made + 1
  /\ IF Len(q) >= MaxCount
     THEN /\ q' = <<made + 1>> \o Front(q)
          /\ destroyed' = destroyed \cup {Last(q)}
     ELSE q' = <<made + 1>> \o q /\ UNCHANGED destroyed
  /\ Goto(t, "notify")
  /\ UNCHANGED <<taken, forgotten, waitExited, timed>>

Notify_Nobody(t) ==
  /\ pc[t] = "notify" /\ Goto(t, "idle")
  /\ UNCHANGED <<q, made, taken, destroyed, forgotten, waitExited, timed>>

\* notify_one, after the unlock: wakes any one of the threads waiting then.
Notify(t) ==
  /\ pc[t] = "notify"
  /\ IF Waiters = {} THEN Goto(t, "idle")
     ELSE \E w \in Waiters : pc' = [pc EXCEPT ![t] = "idle", ![w] = "woken"]
  /\ UNCHANGED <<q, made, taken, destroyed, forgotten, waitExited, timed>>

TimeOut(t) ==
  /\ pc[t] = "waiting" /\ timed[t] /\ Goto(t, "timedOut")
  /\ UNCHANGED <<q, made, taken, destroyed, forgotten, waitExited, timed>>

SpuriousWake(t) ==
  /\ pc[t] = "waiting" /\ Goto(t, "woken")
  /\ UNCHANGED <<q, made, taken, destroyed, forgotten, waitExited, timed>>

\* clear(): drops the pointers without destroyOne.
Clear(t) ==
  /\ "clear" \in Calls /\ pc[t] = "idle" /\ q # <<>>
  /\ q' = <<>> /\ forgotten' = forgotten \cup Content
  /\ UNCHANGED <<made, taken, destroyed, waitExited, pc, timed>>

\* setWaitExitState(): a plain store, nobody is notified.
SetWaitExitState(t) ==
  /\ "exit" \in Calls /\ pc[t] = "idle" /\ ~waitExited
  /\ waitExited' = TRUE
  /\ UNCHANGED <<q, made, taken, destroyed, forgotten, pc, timed>>

ReaderStep(t) == Read(t, FALSE) \/ Read(t, TRUE)
WriterStep(t) ==
  TimedWrite(t) \/ Write(t) \/ CycWrite(t) \/ Notify(t) \/ Clear(t) \/ SetWaitExitState(t)

Next ==
  \/ \E t \in Readers : ReaderStep(t)
  \/ \E t \in Writers : WriterStep(t)
  \/ \E t \in Threads : TimeOut(t) \/ SpuriousWake(t)

Spec == Init /\ [][Next]_vars

\* A thread in a call goes on when it can; nobody need call.  The deadline of a
\* timed wait passes whatever wakes the thread up before: strong fairness.
FairSpec ==
  /\ Spec
  /\ \A t \in Readers : WF_vars(pc[t] # "idle" /\ ReaderStep(t)) /\ SF_vars(TimeOut(t))
  /\ \A t \in Writers : WF_vars(pc[t] # "idle" /\ WriterStep(t)) /\ SF_vars(TimeOut(t))

-----------------------------------------------------------------------------
TypeOK ==
  /\ made \in Nat
  /\ q \in Seq(1..made) /\ Len(q) <= MaxCount
  /\ waitExited \in BOOLEAN
  /\ pc \in [Threads -> {"idle", "waiting", "woken", "timedOut", "notify"}]
  /\ timed \in [Threads -> BOOLEAN]

\* Every element written is in exactly one place: queued once, returned to one
\* reader, destroyed, or forgotten by clear(); so no reader gets a destroyed one
\* and none is destroyed twice.
EachElementOnce ==
  /\ Content \cup taken \cup destroyed \cup forgotten = 1..made
  /\ \A i, j \in 1..Len(q) : q[i] = q[j] => i = j
  /\ taken \cap destroyed = {} /\ taken \cap forgotten = {} /\ destroyed \cap forgotten = {}
  /\ Content \cap (taken \cup destroyed \cup forgotten) = {}

\* First in, first out, drops included: whatever left the queue is older than
\* whatever is in it, and the deque runs from the newest to the oldest.
OldestLeavesFirst ==
  /\ \A i, j \in 1..Len(q) : i < j => q[i] > q[j]
  /\ \A e \in taken \cup destroyed \cup forgotten : \A i \in 1..Len(q) : e < q[i]

\* The queue does what BoundedFifo promises.
Fifo == INSTANCE BoundedFifo WITH fifo <- Reverse(q)
ImplementsFifo == Fifo!Spec

\* A reader does not sleep on an element that stays in the queue, as long as no
\* writer ever waits on the same condition variable (and takes its wake-up).
WriterWaits == \E w \in Writers : pc[w] = "waiting"
ReadersServed ==
  []~WriterWaits =>
    \A t \in Readers : (pc[t] = "waiting" /\ q # <<>>) ~> (pc[t] # "waiting" \/ q = <<>>)

\* After setWaitExitState every timed call comes back, although nobody is notified.
TimedCallsGiveUp == \A t \in Threads : (waitExited /\ timed[t]) ~> (pc[t] = "idle")

\* Every element has one fate, and the oldest one meets it first.
OneFateInOrder == EachElementOnce /\ OldestLeavesFirst

\* A wait ends when there is an element to read, or with its time.
WaitsEnd == ReadersServed /\ TimedCallsGiveUp
=============================================================================
