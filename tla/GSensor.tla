------------------------------ MODULE GSensor ------------------------------
(***************************************************************************)
(* gsensor: callers register functions in the slots of senddata, under the *)
(* mutex; the first one starts a thread that enables the device and hands  *)
(* each complete sample to the registered functions, the last one that     *)
(* unregisters asks the thread to end and disables the device.  The thread *)
(* itself takes no lock: it reads the slots and the flags, and on its way  *)
(* out resets the two flags the callers go by.                             *)
(***************************************************************************)
EXTENDS Integers, FiniteSets

CONSTANTS N,          \* GSENSOR_FUN_NUM
          Funcs,      \* functions that may be registered
          None,       \* an empty slot
          MaxOps      \* bound on the calls of register and unregister

\* What the constants may be.
SlotBounds == N \in Nat \ {0} /\ MaxOps \in Nat /\ None \notin Funcs

Slots == 1 .. N
Threads == 1 .. MaxOps + 1

VARIABLES send,      \* senddata: what each slot holds (num is 0 when it is empty)
          count,     \* gsfun_count
          state,     \* gsthread_state = 1
          release,   \* gsrelease_state = 1
          on,        \* gstate, and whether the device runs
          axes,      \* axis_x_init, axis_y_init and axis_z_init
          pc,        \* where each thread is
          slot,      \* the slot each thread is at
          sent,      \* send_count of each thread
          calls,     \* history: functions called since they were registered
          failed,    \* history: of the last thread, could it not be created, or not
                     \* enable the device; and could that not be disabled
          rushed,    \* history: a function was registered while a thread left
          early,     \* history: the last one was unregistered while a thread came
                     \* up, or left of itself
          ops

shared == <<send, count, state, release, on>>
history == <<failed, rushed, early>>
vars == <<shared, axes, pc, slot, sent, calls, history, ops>>

Live == {t \in Threads : pc[t] \notin {"none", "done"}}

\* gsensor_create_thread: a thread not used yet.
Create == \E t \in Threads : /\ \A u \in Threads : u < t => pc[u] # "none"
                             /\ pc[t] = "none" /\ pc' = [pc EXCEPT ![t] = "start"]

\* A thread is to end, or resets the flags on its way out.
Leaving == release \/ \E t \in Threads : pc[t] \in {"exit", "cleared"}

Free == {i \in Slots : send[i] = None}
FirstFree == CHOOSE i \in Free : \A j \in Free : i <= j

\* The search for the same function stops at the first free slot.
MayTake(f) == Free # {} /\ \A i \in 1 .. FirstFree - 1 : send[i] # f

\* Mutant: the thread is started whether or not there is one.
Register_Always(f) ==
    /\ ops < MaxOps /\ ops' = ops + 1
    /\ MayTake(f)
    /\ send' = [send EXCEPT ![FirstFree] = f] /\ count' = count + 1
    /\ \/ Create /\ state' = TRUE /\ failed' = failed \ {"create", "enable"}
       \/ ~state /\ failed' = failed \cup {"create"} /\ UNCHANGED <<pc, state>>
    /\ rushed' = (rushed \/ Leaving)
    /\ calls' = calls \ {f}
    /\ UNCHANGED <<release, on, axes, slot, sent, early>>

\* The mutex keeps callers from each other, not from the thread.
Register(f) ==
    /\ ops < MaxOps /\ ops' = ops + 1
    /\ MayTake(f)
    /\ send' = [send EXCEPT ![FirstFree] = f] /\ count' = count + 1
    /\ \/ state /\ UNCHANGED <<pc, state, failed>>
       \/ ~state /\ Create /\ state' = TRUE /\ failed' = failed \ {"create", "enable"}
       \/ ~state /\ failed' = failed \cup {"create"} /\ UNCHANGED <<pc, state>>
    /\ rushed' = (rushed \/ Leaving)
    /\ calls' = calls \ {f}
    /\ UNCHANGED <<release, on, axes, slot, sent, early>>

IsLast == state /\ send' = [j \in Slots |-> None]
Early == \E t \in Threads : pc[t] \in {"start", "exit", "cleared"}

\* Mutant: the last one does not disable the device.
Unregister_StaysOn(i) ==
    /\ ops < MaxOps /\ ops' = ops + 1
    /\ send[i] # None
    /\ send' = [send EXCEPT ![i] = None] /\ count' = count - 1
    /\ state' = (state /\ ~IsLast) /\ release' = (release \/ IsLast)
    /\ early' = (early \/ (IsLast /\ Early))
    /\ UNCHANGED <<on, failed, axes, pc, slot, sent, calls, rushed>>

\* Nobody looks at whether the disable of the last one failed.
Unregister(i) ==
    /\ ops < MaxOps /\ ops' = ops + 1
    /\ send[i] # None
    /\ send' = [send EXCEPT ![i] = None] /\ count' = count - 1
    /\ state' = (state /\ ~IsLast) /\ release' = (release \/ IsLast)
    /\ \/ ~IsLast /\ UNCHANGED <<on, failed>>
       \/ IsLast /\ on' = FALSE /\ failed' = failed \ {"disable"}
       \/ IsLast /\ UNCHANGED on /\ failed' = failed \cup {"disable"}
    /\ early' = (early \/ (IsLast /\ Early))
    /\ UNCHANGED <<axes, pc, slot, sent, calls, rushed>>

\* gsensor_thread: enable the device; when that fails the thread ends.
Enable(t, ok) ==
    /\ pc[t] = "start"
    /\ on' = (on \/ ok) /\ pc' = [pc EXCEPT ![t] = IF ok THEN "loop" ELSE "exit"]
    /\ failed' = (IF ok THEN failed ELSE failed \cup {"enable"})
    /\ UNCHANGED <<send, count, state, release, axes, slot, sent, calls, rushed, early, ops>>

\* The loop, and gsensor_readevent, which gives up once it should release or
\* the device is disabled.
LoopTest(t) ==
    /\ pc[t] = "loop"
    /\ release \/ on
    /\ pc' = [pc EXCEPT ![t] = IF release THEN "exit" ELSE "poll"]
    /\ UNCHANGED <<shared, axes, slot, sent, calls, history, ops>>

\* An axis, or a read that fails; a synchronisation before all axes is ignored.
Axis(t) ==
    /\ pc[t] = "poll" /\ on
    /\ axes' = TRUE /\ pc' = [pc EXCEPT ![t] = "loop"]
    /\ UNCHANGED <<shared, slot, sent, calls, history, ops>>

Sync(t) ==
    /\ pc[t] = "poll" /\ on /\ axes
    /\ pc' = [pc EXCEPT ![t] = IF count <= 0 THEN "loop" ELSE "check"]
    /\ slot' = [slot EXCEPT ![t] = 1] /\ sent' = [sent EXCEPT ![t] = 0]
    /\ UNCHANGED <<shared, axes, calls, history, ops>>

PollAgain(t) ==
    /\ pc[t] = "poll"
    /\ release \/ ~on
    /\ pc' = [pc EXCEPT ![t] = "loop"]
    /\ UNCHANGED <<shared, axes, slot, sent, calls, history, ops>>

\* The sample goes to the slots in turn, until as many were served as there are
\* functions; the slot is read once to see whether it is empty, again to call.
Advance(t, served) ==
    /\ sent' = [sent EXCEPT ![t] = served]
    /\ slot' = [slot EXCEPT ![t] = IF slot[t] < N THEN slot[t] + 1 ELSE 1]
    /\ pc' = [pc EXCEPT ![t] = IF served = count \/ slot[t] = N THEN "loop" ELSE "check"]

Check(t) ==
    /\ pc[t] = "check"
    /\ IF send[slot[t]] # None
       THEN pc' = [pc EXCEPT ![t] = "call"] /\ UNCHANGED <<slot, sent>>
       ELSE Advance(t, sent[t])
    /\ UNCHANGED <<shared, axes, calls, history, ops>>

\* Mutant: the loop is left after the first function.
Call_First(t) ==
    /\ pc[t] = "call"
    /\ IF send[slot[t]] = None
       THEN pc' = [pc EXCEPT ![t] = "crashed"] /\ UNCHANGED <<calls, slot, sent>>
       ELSE /\ calls' = calls \cup {send[slot[t]]}
            /\ pc' = [pc EXCEPT ![t] = "loop"] /\ UNCHANGED <<slot, sent>>
    /\ UNCHANGED <<shared, axes, history, ops>>

Call(t) ==
    /\ pc[t] = "call"
    /\ IF send[slot[t]] = None
       THEN pc' = [pc EXCEPT ![t] = "crashed"] /\ UNCHANGED <<calls, slot, sent>>
       ELSE calls' = calls \cup {send[slot[t]]} /\ Advance(t, sent[t] + 1)
    /\ UNCHANGED <<shared, axes, history, ops>>

\* PTHREAD_EXIT: two flags, without the mutex.
ClearRelease(t) ==
    /\ pc[t] = "exit"
    /\ release' = FALSE /\ pc' = [pc EXCEPT ![t] = "cleared"]
    /\ UNCHANGED <<send, count, state, on, axes, slot, sent, calls, history, ops>>

ClearState(t) ==
    /\ pc[t] = "cleared"
    /\ state' = FALSE /\ pc' = [pc EXCEPT ![t] = "done"]
    /\ UNCHANGED <<send, count, release, on, axes, slot, sent, calls, history, ops>>

\* gsensor_init starts the thread when collisions or parking are to be watched.
Init == \E watch \in BOOLEAN :
    /\ send = [i \in Slots |-> None] /\ count = 0
    /\ state = watch /\ release = FALSE /\ on = FALSE /\ axes = FALSE
    /\ pc = [t \in Threads |-> IF watch /\ t = 1 THEN "start" ELSE "none"]
    /\ slot = [t \in Threads |-> 1] /\ sent = [t \in Threads |-> 0]
    /\ calls = {} /\ ops = 0
    /\ failed = {} /\ rushed = FALSE /\ early = FALSE

\* A null function has been called: that ends the process.
Crashed == \E t \in Threads : pc[t] = "crashed"

Works(t) == /\ ~Crashed
            /\ \/ Enable(t, TRUE) \/ LoopTest(t) \/ PollAgain(t)
               \/ Check(t) \/ Call(t) \/ ClearRelease(t) \/ ClearState(t)
Samples == ~Crashed /\ \E t \in Threads : Axis(t)
Syncs == ~Crashed /\ \E t \in Threads : Sync(t)
Next == \/ Samples \/ Syncs
        \/ \E t \in Threads : Works(t)
        \/ /\ ~Crashed
           /\ \/ \E f \in Funcs : Register(f)
              \/ \E i \in Slots : Unregister(i)
              \/ \E t \in Threads : Enable(t, FALSE)

Spec == Init /\ [][Next]_vars

\* Threads run, and an enabled device delivers axes and synchronisations.
FairSpec == /\ Spec /\ \A t \in Threads : WF_vars(Works(t))
            /\ SF_vars(Samples) /\ SF_vars(Syncs)
-----------------------------------------------------------------------------
TypeOK == /\ send \in [Slots -> Funcs \cup {None}]
          /\ count = Cardinality({i \in Slots : send[i] # None})
          /\ {state, release, on, axes, rushed, early} \subseteq BOOLEAN
          /\ failed \subseteq {"create", "enable", "disable"}
          /\ pc \in [Threads -> {"none", "start", "loop", "poll", "check", "call", "exit",
                                 "cleared", "done", "crashed"}]
          /\ slot \in [Threads -> Slots] /\ sent \in [Threads -> 0 .. N]
          /\ calls \subseteq Funcs /\ ops \in 0 .. MaxOps

\* Never two threads on the device, if no function was registered while the old
\* one was on its way out: that starts one beside it.
OneThread == rushed \/ Cardinality(Live) <= 1

\* What makes register do without creating a thread: while gsthread_state is set
\* there is one, in whatever order the calls and the end of a thread came.
StateHasThread == state => Live # {}

\* The device runs only for a thread, unless it could not be disabled or the last
\* function was unregistered before the thread had enabled it; and a thread that
\* waits for samples has it running, or is about to release it.
DeviceFollows ==
    \/ rushed
    \/ /\ Live = {} => ~on \/ early \/ "disable" \in failed
       /\ \A t \in Live : pc[t] \in {"poll", "check", "call"} => on \/ release

Registered(f) == \E i \in Slots : send[i] = f

\* A function that stays registered is handed samples (line 167: a successful
\* registration starts the thread), unless that failed, a call came too soon for a
\* thread on its way out or up, or a null function was called.
RegisteredIsCalled ==
    \A f \in Funcs :
        Registered(f) ~> \/ f \in calls \/ ~Registered(f)
                         \/ failed \cap {"create", "enable"} # {} \/ rushed \/ early \/ Crashed
=============================================================================
