------------------------------- MODULE DfqFifo -------------------------------
(***************************************************************************)
(* dfq_fifo: a bounded dll_fifo behind one mutex and one condition for     *)
(* readers and writers alike.  A writer signals after it has unlocked, a   *)
(* reader never does; a writer that waited does not look at the size       *)
(* again; the time limits are points of time long past, so a timed wait    *)
(* ends at once, but for the window in which it gave up the mutex.         *)
(***************************************************************************)
EXTENDS Naturals, FiniteSets

CONSTANTS Readers, Writers,
          Max,          \* mPar->size
          MaxPushes,    \* bound on the elements written
          Long          \* are the time limits a second or more: then the wait
                        \* fails with EINVAL and keeps the mutex

\* What the constants may be.
QueueBounds == /\ Max \in Nat \ {0} /\ MaxPushes \in Nat /\ Long \in BOOLEAN
               /\ IsFiniteSet(Readers) /\ IsFiniteSet(Writers) /\ Readers \cap Writers = {}

Threads == Readers \cup Writers

VARIABLES size,       \* of mQue
          exit,       \* mIsWaitWasExited
          at,         \* where each thread is
          holds,      \* a thread keeps the mutex
          pushes,
          wrote,      \* history: the writers that added an element
          cycled,     \* history: a cycWrite found the queue full
          swallowed   \* history: a timed write took a signal and gave up

vars == <<size, exit, at, holds, pushes, wrote, cycled, swallowed>>

Waiting == {t \in Threads : at[t] \in {"wait", "timed"}}
Goes(t, where) == at' = [at EXCEPT ![t] = where]

\* dfq_fifo_read, called or woken: it waits as long as the queue is empty.
Read(r) == /\ ~holds /\ at[r] \in {"idle", "woken"}
           /\ IF size = 0 THEN Goes(r, "wait") /\ UNCHANGED size
              ELSE Goes(r, "idle") /\ size' = size - 1
           /\ UNCHANGED <<exit, holds, pushes, wrote, cycled, swallowed>>

\* dfq_fifo_tdRead: the wait fails at once and it tries again, until there is an
\* element or somebody called setExit.
TdRead(r) == /\ at[r] \in {"idle", "spin"} /\ (at[r] = "idle" => ~holds)
             /\ IF size > 0 THEN Goes(r, "idle") /\ size' = size - 1
                ELSE Goes(r, IF exit THEN "idle" ELSE "spin") /\ UNCHANGED size
             /\ holds' = (Long /\ size = 0 /\ ~exit)
             /\ UNCHANGED <<exit, pushes, wrote, cycled, swallowed>>

Push(w) == pushes < MaxPushes /\ pushes' = pushes + 1 /\ wrote' = wrote \cup {w} /\ Goes(w, "pushed")

\* Mutant: a queue that is just full is written to.
Write_OneMore(w) == /\ ~holds /\ at[w] = "idle"
            /\ IF size > Max THEN Goes(w, "wait") /\ UNCHANGED <<size, pushes, wrote>>
               ELSE Push(w) /\ size' = size + 1
            /\ UNCHANGED <<exit, holds, cycled, swallowed>>

\* dfq_fifo_write, called; and woken, when it writes whatever the size.
Write(w) == /\ ~holds /\ at[w] = "idle"
            /\ IF size >= Max THEN Goes(w, "wait") /\ UNCHANGED <<size, pushes, wrote>>
               ELSE Push(w) /\ size' = size + 1
            /\ UNCHANGED <<exit, holds, cycled, swallowed>>

WriteWoken(w) == /\ ~holds /\ at[w] = "woken"
                 /\ Push(w) /\ size' = size + 1
                 /\ UNCHANGED <<exit, holds, cycled, swallowed>>

\* dfq_fifo_tdWrite; one that took a signal and finds the queue full again
\* returns false and signals nobody.
TdWrite(w) == /\ ~holds /\ at[w] = "idle" /\ size >= Max
              /\ Goes(w, "timed")
              /\ UNCHANGED <<size, exit, holds, pushes, wrote, cycled, swallowed>>

TdWriteEnds(w) == /\ ~holds /\ at[w] \in {"timed", "timed woken"}
                  /\ IF size >= Max
                     THEN /\ Goes(w, "idle") /\ UNCHANGED <<size, pushes, wrote>>
                          /\ swallowed' = (swallowed \/ at[w] = "timed woken")
                     ELSE Push(w) /\ size' = size + 1 /\ UNCHANGED swallowed
                  /\ UNCHANGED <<exit, holds, cycled>>

\* dfq_fifo_cycWrite: when full it takes out the very element it is about to
\* add, which is there only when it was added before.
CycWrite(w, there) ==
    /\ ~holds /\ at[w] = "idle" /\ (there => size >= Max)
    /\ Push(w) /\ size' = IF there THEN size ELSE size + 1
    /\ cycled' = (cycled \/ (size >= Max /\ ~there))
    /\ UNCHANGED <<exit, holds, swallowed>>

Woken(t) == IF at[t] = "timed" THEN "timed woken" ELSE "woken"

\* Mutant: a signal is sent only when the queue was empty before.
Signal_First(w) ==
    /\ at[w] = "pushed"
    /\ IF Waiting = {} \/ size > 1 THEN Goes(w, "idle")
       ELSE \E t \in Waiting : at' = [at EXCEPT ![w] = "idle", ![t] = Woken(t)]
    /\ UNCHANGED <<size, exit, holds, pushes, wrote, cycled, swallowed>>

\* pthread_cond_signal, once the mutex is unlocked.
Signal(w) == /\ at[w] = "pushed"
             /\ IF Waiting = {} THEN Goes(w, "idle")
                ELSE \E t \in Waiting : at' = [at EXCEPT ![w] = "idle", ![t] = Woken(t)]
             /\ UNCHANGED <<size, exit, holds, pushes, wrote, cycled, swallowed>>

SetExit == /\ ~exit /\ exit' = TRUE
           /\ at' = [t \in Threads |-> IF t \in Waiting THEN Woken(t) ELSE at[t]]
           /\ UNCHANGED <<size, holds, pushes, wrote, cycled, swallowed>>

Clear == /\ ~holds /\ size' = 0
         /\ UNCHANGED <<exit, at, holds, pushes, wrote, cycled, swallowed>>

Init == /\ size = 0 /\ exit = FALSE /\ at = [t \in Threads |-> "idle"] /\ holds = FALSE
        /\ pushes = 0 /\ wrote = {} /\ cycled = FALSE /\ swallowed = FALSE

Next == \/ \E r \in Readers : Read(r) \/ TdRead(r)
        \/ \E w \in Writers : \/ Write(w) \/ WriteWoken(w) \/ TdWrite(w) \/ TdWriteEnds(w)
                              \/ CycWrite(w, TRUE) \/ CycWrite(w, FALSE) \/ Signal(w)
        \/ SetExit \/ Clear
Spec == Init /\ [][Next]_vars
-----------------------------------------------------------------------------
TypeOK == /\ size \in 0 .. MaxPushes /\ pushes \in 0 .. MaxPushes
          /\ wrote \subseteq Writers
          /\ {exit, holds, cycled, swallowed} \subseteq BOOLEAN
          /\ at \in [Threads -> {"idle", "wait", "woken", "spin", "timed", "timed woken",
                                 "pushed"}]

\* An only reader does not sleep on elements: somebody is awake who will read, or
\* will signal, unless a timed write took the signal that was meant for it.  (With
\* two readers a writer that waits may take one of two signals.)
NobodySleepsOnData ==
    (Cardinality(Readers) = 1 /\ size > 0 /\ \E r \in Readers : at[r] = "wait") =>
       \/ \E t \in Threads : at[t] \in {"woken", "timed woken", "pushed"}
       \/ swallowed

\* As long as one writer wrote the queue keeps to its size, but for cycWrite,
\* which adds to a full queue, and setExit, which wakes the writer.  (Two writers
\* wake each other in turn and each adds an element, for ever.)
KeepsToItsSize == Cardinality(wrote) <= 1 /\ ~cycled /\ ~exit => size <= Max
=============================================================================
