----------------------------- MODULE GyroSensor -----------------------------
(***************************************************************************)
(* gyrosensor: start allocates the buffer of the samples, enables the      *)
(* device and starts a thread; stop asks the thread to end and joins it,   *)
(* both under the mutex.  The thread frees the buffer and disables the     *)
(* device on its way out.  Whoever reads samples or calibrates takes no    *)
(* lock.  The paths of start that fail return with the mutex locked, and   *)
(* nobody looks at whether a device could be disabled.                     *)
(***************************************************************************)
EXTENDS Naturals, FiniteSets

CONSTANTS Callers,    \* threads that start and stop
          Nobody,     \* holds the mutex
          MaxCalls,   \* bound on the calls
          MayFail     \* what may go wrong

\* In start, when the thread disables, and in a calibration.
Failures == {"malloc", "enable", "create"} \cup {"disable"} \cup {"open", "close"}

\* What the constants may be.
CallerBounds == /\ Nobody \notin Callers /\ MaxCalls \in Nat
                /\ MayFail \subseteq Failures

VARIABLES holder,     \* of gs_mutex
          at,         \* where each caller is
          calls,      \* how many calls were made
          wanted,     \* thread_state = 1
          ending,     \* release_state = 1
          enabled,    \* state = GYROSENSOR_ENABLE
          device,     \* does the device run
          fifodata,   \* "null", "valid" or "freed"
          thread,     \* where the thread is
          reader,     \* where the one that reads samples or calibrates is
          failed      \* history: what keeps state and device from agreeing: a failure,
                      \* or "cut", a calibration that closed the device of others

vars == <<holder, at, calls, wanted, ending, enabled, device, fifodata, thread, reader, failed>>

Ask(c, what) == /\ at[c] = "idle" /\ calls < MaxCalls
                /\ at' = [at EXCEPT ![c] = what] /\ calls' = calls + 1
                /\ UNCHANGED <<holder, wanted, ending, enabled, device, fifodata, thread, reader, failed>>

\* gyrosensor_start once it has the mutex: a malloc that fails and an ioctl
\* that fails return without unlocking, and leave thread_state at 1; a thread
\* that cannot be created leaves the device enabled.
Start(c) ==
    /\ at[c] = "start" /\ holder = Nobody
    /\ at' = [at EXCEPT ![c] = "idle"]
    /\ \E fails \in (MayFail \cap {"malloc", "enable", "create"}) \cup {"nothing"} :
         IF wanted THEN UNCHANGED <<holder, wanted, enabled, device, fifodata, thread, failed>>
         ELSE /\ wanted' = (fails # "create")
              /\ fifodata' = CASE fails = "malloc" -> "null"
                               [] fails = "enable" -> "freed"
                               [] OTHER -> "valid"
              /\ holder' = IF fails \in {"malloc", "enable"} THEN c ELSE Nobody
              /\ enabled' = (enabled \/ fails \in {"create", "nothing"})
              /\ device' = (device \/ fails \in {"create", "nothing"})
              /\ thread' = IF fails = "nothing" THEN "loop" ELSE thread
              /\ failed' = CASE fails = "nothing" -> {}
                             [] fails = "create" -> (failed \ {"cut", "close"}) \cup {"create"}
                             [] OTHER -> failed
    /\ UNCHANGED <<calls, ending, reader>>

\* Mutant: stop does not wait for the thread.
Stop_NoJoin(c) ==
    /\ at[c] = "stop" /\ holder = Nobody
    /\ wanted' = FALSE /\ ending' = (ending \/ wanted)
    /\ at' = [at EXCEPT ![c] = "idle"]
    /\ UNCHANGED <<calls, holder, enabled, device, fifodata, thread, reader, failed>>

\* Mutant: stop does not ask the thread to end.
Stop_NoFlag(c) ==
    /\ at[c] = "stop" /\ holder = Nobody
    /\ wanted' = FALSE /\ ending' = ending
    /\ at' = [at EXCEPT ![c] = IF wanted THEN "join" ELSE "idle"]
    /\ holder' = IF wanted THEN c ELSE Nobody
    /\ UNCHANGED <<calls, enabled, device, fifodata, thread, reader, failed>>

\* gyrosensor_stop asks the thread to end and joins it with the mutex.
Stop(c) ==
    /\ at[c] = "stop" /\ holder = Nobody
    /\ wanted' = FALSE /\ ending' = (ending \/ wanted)
    /\ at' = [at EXCEPT ![c] = IF wanted THEN "join" ELSE "idle"]
    /\ holder' = IF wanted THEN c ELSE Nobody
    /\ UNCHANGED <<calls, enabled, device, fifodata, thread, reader, failed>>

Join(c) == /\ at[c] = "join" /\ thread = "none"
           /\ at' = [at EXCEPT ![c] = "idle"] /\ holder' = Nobody
           /\ UNCHANGED <<calls, wanted, ending, enabled, device, fifodata, thread, reader, failed>>

\* gyrosensor_thread: the loop looks at the flag; auto_tc is 0 from init on, so
\* it calibrates nothing.  Then it frees the buffer, clears both flags and
\* disables the device.
ThreadFrees == /\ thread = "loop" /\ ending
               /\ fifodata' = "freed" /\ thread' = "freed"
               /\ UNCHANGED <<holder, at, calls, wanted, ending, enabled, device, reader, failed>>

ThreadClears == /\ thread = "freed"
                /\ ending' = FALSE /\ wanted' = FALSE /\ thread' = "cleared"
                /\ UNCHANGED <<holder, at, calls, enabled, device, fifodata, reader, failed>>

ThreadDisables ==
    /\ thread = "cleared" /\ thread' = "none"
    /\ \/ enabled' = FALSE /\ device' = FALSE /\ failed' = {}
       \/ "disable" \in MayFail /\ failed' = failed \cup {"disable"} /\ UNCHANGED <<enabled, device>>
    /\ UNCHANGED <<holder, at, calls, wanted, ending, fifodata, reader>>

\* gyrosensor_direct_getdata: the state is looked at once, the buffer is filled
\* and copied later, with whatever comes of it when that has been freed.
ReadLooks == /\ reader = "idle" /\ enabled
             /\ reader' = "read"
             /\ UNCHANGED <<holder, at, calls, wanted, ending, enabled, device, fifodata, thread, failed>>

ReadCopies == /\ reader = "read"
              /\ \/ fifodata # "null" /\ reader' = "idle"
                 \/ fifodata # "valid" /\ reader' = "crashed"
              /\ UNCHANGED <<holder, at, calls, wanted, ending, enabled, device, fifodata, thread, failed>>

\* gyrosensor_calibration(GYRO_DIRECT_CALIBRATION): a device that is disabled is
\* started for it and closed again, whatever was done to it meanwhile.
CalibrationStarts ==
    /\ reader = "idle" /\ ~enabled
    /\ reader' = "calibrate"
    /\ device' = TRUE \/ ("open" \in MayFail /\ UNCHANGED device)
    /\ UNCHANGED <<holder, at, calls, wanted, ending, enabled, fifodata, thread, failed>>

\* Mutant: the device stays as the calibration has left it.
CalibrationCloses_Not ==
    /\ reader = "calibrate" /\ reader' = "idle"
    /\ UNCHANGED <<holder, at, calls, wanted, ending, enabled, device, fifodata, thread, failed>>

CalibrationCloses ==
    /\ reader = "calibrate" /\ reader' = "idle"
    /\ \/ device' = FALSE /\ failed' = (IF enabled THEN failed \cup {"cut"} ELSE failed \ {"close"})
       \/ "close" \in MayFail /\ failed' = failed \cup {"close"} /\ UNCHANGED device
    /\ UNCHANGED <<holder, at, calls, wanted, ending, enabled, fifodata, thread>>

Init == /\ holder = Nobody /\ at = [c \in Callers |-> "idle"] /\ calls = 0
        /\ wanted = FALSE /\ ending = FALSE /\ enabled = FALSE /\ device = FALSE
        /\ fifodata = "null" /\ thread = "none" /\ reader = "idle" /\ failed = {}

\* A reader that crashes takes the process with it.
Crashed == reader = "crashed"

Serves(c) == ~Crashed /\ (Start(c) \/ Stop(c) \/ Join(c))
Runs == ~Crashed /\ (ThreadFrees \/ ThreadClears \/ ThreadDisables)
Reads == ReadLooks \/ ReadCopies \/ CalibrationStarts \/ CalibrationCloses
Next == \/ \E c \in Callers : Serves(c) \/ (~Crashed /\ (Ask(c, "start") \/ Ask(c, "stop")))
        \/ Runs
        \/ Reads

Spec == Init /\ [][Next]_vars
\* The mutex is handed to everybody who waits, and the thread runs.
FairSpec == Spec /\ WF_vars(Runs) /\ \A c \in Callers : SF_vars(Serves(c))
-----------------------------------------------------------------------------
TypeOK == /\ holder \in Callers \cup {Nobody}
          /\ at \in [Callers -> {"idle", "start", "stop", "join"}]
          /\ calls \in 0 .. MaxCalls
          /\ {wanted, ending, enabled, device} \subseteq BOOLEAN
          /\ fifodata \in {"null", "valid", "freed"}
          /\ thread \in {"none", "loop", "freed", "cleared"}
          /\ reader \in {"idle", "read", "calibrate", "crashed"}
          /\ failed \subseteq Failures \cup {"cut"}

\* Whenever no call is under way: a thread is wanted exactly when there is one, and
\* has its buffer and its device enabled.  An enabled device without one is left by
\* a thread that could not be created or could not disable it; a buffer without one
\* by the former.
Settled == holder = Nobody =>
             /\ wanted = (thread = "loop") /\ ~ending
             /\ wanted => fifodata = "valid" /\ enabled
             /\ enabled /\ ~wanted => failed \cap {"create", "disable"} # {}
             /\ fifodata = "valid" /\ ~wanted => "create" \in failed

\* At any time the device runs exactly when the state says so, but for a calibration:
\* while it has a disabled one running or could not close it, and after it closed one
\* that was enabled meanwhile.
DeviceAsState ==
    /\ device /\ ~enabled => reader = "calibrate" \/ "close" \in failed
    /\ enabled /\ ~device => "cut" \in failed

\* A start that failed has kept the mutex; whoever asks for it waits for ever.
Abandoned == holder # Nobody /\ at[holder] # "join"

\* Every call of start and stop returns, until a start fails.
CallsReturn == \A c \in Callers : at[c] # "idle" ~> at[c] = "idle" \/ Abandoned \/ Crashed
=============================================================================
