------------------------------ MODULE RePlayer ------------------------------
(***************************************************************************)
(* RePlayer: one thread reads a chunk from the recorder, passes it through *)
(* a ring of Max slots, one of them always free, and writes the oldest to  *)
(* the player; SIGUSR1 pauses and resumes both devices.  They have no      *)
(* hardware pause: pause drops the PCM, resume prepares it, and a dropped  *)
(* recorder delivers nothing.                                              *)
(*                                                                         *)
(* signal() blocks SIGUSR1 on the thread that runs the handler and on no   *)
(* other: a second one is handled on the loop's thread, wherever that is,  *)
(* with whatever mutex of a device it holds.                               *)
(***************************************************************************)
EXTENDS Integers

CONSTANTS Max,        \* mPoolChunks
          MaxSignals, \* bound on the SIGUSR1 that arrive
          MaxChunks   \* chunks are numbered modulo this, beyond those in the ring:
                      \* of two that follow each other one may have been refused

ASSUME PoolAssumption == /\ Max \in Nat /\ Max >= 2
                         /\ MaxChunks \in Nat /\ MaxChunks > 2 * Max
ASSUME SignalAssumption == MaxSignals \in Nat

Slots == 0 .. Max - 1
Chunks == 0 .. MaxChunks - 1

VARIABLES slot, ri, wi,   \* the pool
          next,           \* number of the chunk the recorder delivers next
          play, full,     \* playFlag, fullFlag
          loop,           \* where the thread is
          chunk,          \* the chunk being written
          last,           \* history: the last chunk taken from the pool
          pauseFlag,      \* mPauseFlag
          rec, ply,       \* do the PCMs run (TRUE), or are they dropped
          isPaused,       \* sig_handle's static flag
          handler,        \* where each thread is in the handler, if it is
          signals,        \* SIGUSR1 so far
          overlapped      \* history: one was handled while another was

pool == <<slot, ri, wi>>
sigs == <<isPaused, handler, signals, overlapped>>
vars == <<pool, next, play, full, loop, chunk, last, pauseFlag, rec, ply, sigs>>

Threads == {"main", "loop"}
Calm == \A t \in Threads : handler[t] = "none"

\* Mutant: the index may reach the end.
Nxt_Over(i) == IF i + 1 <= Max THEN i + 1 ELSE 0
Nxt(i) == IF i + 1 < Max THEN i + 1 ELSE 0
Empty == wi = ri
Fill == (wi - ri + Max) % Max

Top ==
    /\ loop = "top" /\ ~pauseFlag
    /\ loop' = "lock"
    /\ UNCHANGED <<pool, next, play, full, chunk, last, pauseFlag, rec, ply, sigs>>

\* alsa_ctrl_read_stream and alsa_ctrl_write_stream hold the device's mutex from
\* here to their return.
Lock ==
    /\ \/ loop = "lock" /\ loop' = "read"
       \/ loop = "taken" /\ loop' = "write"
    /\ UNCHANGED <<pool, next, play, full, chunk, last, pauseFlag, rec, ply, sigs>>

ReadShort ==
    /\ loop = "read"
    /\ loop' = "top"
    /\ UNCHANGED <<pool, next, play, full, chunk, last, pauseFlag, rec, ply, sigs>>

\* Mutant: a full ring says so, but takes the chunk.
ReadOne_Overruns ==
    /\ loop = "read" /\ rec
    /\ next' = (next + 1) % MaxChunks
    /\ full' = (Nxt(wi) = ri)
    /\ slot' = [slot EXCEPT ![wi] = next] /\ wi' = Nxt(wi) /\ UNCHANGED ri
    /\ loop' = "decide"
    /\ UNCHANGED <<play, chunk, last, pauseFlag, rec, ply, sigs>>

\* chunkPool::write: a full ring refuses the chunk and says so.
ReadOne ==
    /\ loop = "read" /\ rec
    /\ next' = (next + 1) % MaxChunks
    /\ full' = (Nxt(wi) = ri)
    /\ IF full' THEN UNCHANGED pool
       ELSE slot' = [slot EXCEPT ![wi] = next] /\ wi' = Nxt(wi) /\ UNCHANGED ri
    /\ loop' = "decide"
    /\ UNCHANGED <<play, chunk, last, pauseFlag, rec, ply, sigs>>

\* A pool that has run dry stops playing, a full one starts it, one that is
\* neither playing nor full goes on filling; otherwise the oldest chunk is next.
Decide ==
    /\ loop = "decide"
    /\ LET dry == Empty /\ play
           start == ~dry /\ full /\ ~play
           fill == ~full /\ ~play
       IN  /\ ply' = (~dry /\ (ply \/ start))
           /\ play' = (~dry /\ (play \/ start))
           /\ loop' = (IF dry \/ fill THEN "top" ELSE "take")
    /\ UNCHANGED <<pool, next, full, chunk, last, pauseFlag, rec, sigs>>

\* Mutant: the slot is read and the index stays.
Take_Stays ==
    /\ loop = "take"
    /\ chunk' = slot[ri] /\ last' = slot[ri] /\ loop' = "taken"
    /\ UNCHANGED <<pool, next, play, full, pauseFlag, rec, ply, sigs>>

\* chunkPool::read; without a chunk the program exits.
Take ==
    /\ loop = "take"
    /\ IF Empty THEN loop' = "exited" /\ UNCHANGED <<ri, chunk, last>>
       ELSE /\ chunk' = slot[ri] /\ last' = slot[ri]
            /\ ri' = Nxt(ri) /\ loop' = "taken"
    /\ UNCHANGED <<slot, wi, next, play, full, pauseFlag, rec, ply, sigs>>

WriteOk ==
    /\ loop = "write" /\ ply
    /\ loop' = "top"
    /\ UNCHANGED <<pool, next, play, full, chunk, last, pauseFlag, rec, ply, sigs>>

\* An underrun, or a dropped player.
WriteFails ==
    /\ loop = "write"
    /\ ply' = FALSE /\ play' = FALSE /\ loop' = "top"
    /\ UNCHANGED <<pool, next, full, chunk, last, pauseFlag, rec, sigs>>

\* A device is the handler's when the loop is not in it; the handler may run on
\* the loop's thread.
RecFree == loop # "read"
PlyFree == loop # "write"

Goes(t, from, to) == handler[t] = from /\ handler' = [handler EXCEPT ![t] = to]

\* The main thread handles a signal, unless it is in the handler.  sig_handle
\* looks at isPaused.
Signal(t) ==
    /\ signals < MaxSignals /\ signals' = signals + 1
    /\ t = "loop" => handler["main"] # "none"
    /\ Goes(t, "none", IF isPaused THEN "resume" ELSE "pause")
    /\ overlapped' = (overlapped \/ ~Calm)
    /\ UNCHANGED <<pool, next, play, full, loop, chunk, last, pauseFlag, rec, ply, isPaused>>

\* isPaused, which the handler may by now share with another one.
Toggle(t) ==
    /\ \/ Goes(t, "pause", "pause.flag") /\ isPaused' = TRUE
       \/ Goes(t, "resume", "resume.flag") /\ isPaused' = FALSE
    /\ UNCHANGED <<pool, next, play, full, loop, chunk, last, pauseFlag, rec, ply, signals, overlapped>>

\* pause() and resume() set the flag first, then treat the recorder and, forty
\* milliseconds later, the player.
SetFlag(t) ==
    /\ \/ Goes(t, "pause.flag", "pause.rec") /\ pauseFlag' = TRUE
       \/ Goes(t, "resume.flag", "resume.rec") /\ pauseFlag' = FALSE
    /\ UNCHANGED <<pool, next, play, full, loop, chunk, last, rec, ply, isPaused, signals, overlapped>>

\* Mutant: the recorder is not resumed.
HandleRec_NoResume(t) ==
    /\ RecFree
    /\ \/ Goes(t, "pause.rec", "pause.ply") /\ rec' = FALSE
       \/ Goes(t, "resume.rec", "resume.ply") /\ UNCHANGED rec
    /\ UNCHANGED <<pool, next, play, full, loop, chunk, last, pauseFlag, ply, isPaused, signals, overlapped>>

HandleRec(t) ==
    /\ RecFree
    /\ \/ Goes(t, "pause.rec", "pause.ply") /\ rec' = FALSE
       \/ Goes(t, "resume.rec", "resume.ply") /\ rec' = TRUE
    /\ UNCHANGED <<pool, next, play, full, loop, chunk, last, pauseFlag, ply, isPaused, signals, overlapped>>

HandlePly(t) ==
    /\ PlyFree
    /\ \/ Goes(t, "pause.ply", "none") /\ ply' = FALSE
       \/ Goes(t, "resume.ply", "none") /\ ply' = TRUE
    /\ UNCHANGED <<pool, next, play, full, loop, chunk, last, pauseFlag, rec, isPaused, signals, overlapped>>

Init == /\ slot = [s \in Slots |-> 0] /\ ri = 0 /\ wi = 0 /\ next = 1
        /\ play = FALSE /\ full = FALSE /\ loop = "top" /\ chunk = 0 /\ last = 0
        /\ pauseFlag = FALSE /\ rec = TRUE /\ ply = TRUE /\ isPaused = FALSE
        /\ handler = [t \in Threads |-> "none"] /\ signals = 0 /\ overlapped = FALSE

\* The loop goes on when its thread is not in the handler.
LoopStep == Top \/ Lock \/ ReadShort \/ ReadOne \/ Decide \/ Take \/ WriteOk \/ WriteFails
Loop == handler["loop"] = "none" /\ LoopStep

Handle(t) == Toggle(t) \/ SetFlag(t) \/ HandleRec(t) \/ HandlePly(t)

Next == Loop \/ \E t \in Threads : Signal(t) \/ Handle(t)

Spec == Init /\ [][Next]_vars

\* The threads run, in the handler as well, a running recorder delivers again and
\* again, and a thread gets a mutex that is free again and again.
FairSpec == /\ Spec /\ WF_vars(Loop) /\ SF_vars(Loop /\ ReadOne)
            /\ \A t \in Threads : SF_vars(Handle(t))

-----------------------------------------------------------------------------
TypeOK == /\ slot \in [Slots -> Chunks] /\ {ri, wi} \subseteq Slots
          /\ {next, chunk, last} \subseteq Chunks
          /\ {play, full, pauseFlag, rec, ply} \subseteq BOOLEAN
          /\ loop \in {"top", "lock", "read", "decide", "take", "taken", "write", "exited"}
          /\ {isPaused, overlapped} \subseteq BOOLEAN /\ signals \in 0 .. MaxSignals
          /\ handler \in [Threads -> {"none", "pause", "pause.flag", "pause.rec", "pause.ply",
                                      "resume", "resume.flag", "resume.rec", "resume.ply"}]

\* The chunk the thread goes on to play is always there: the exit(-1) after an
\* empty read, and the branch for a pool that ran dry, are never taken.
NeverDry == (loop = "decide" => ~Empty) /\ loop # "exited"

\* While it plays the ring keeps all but two slots filled, so the delay from
\* the recorder to the player neither grows nor shrinks.
DelayIsConstant == play /\ loop \in {"top", "lock", "read"} => Fill = Max - 2

\* Chunks are played in the order they were recorded, none twice: what waits in
\* the ring is younger than what was played, and older first.
Age(k) == (next - k + MaxChunks) % MaxChunks
InOrder ==
    LET q == [k \in 1 .. Fill |-> slot[(ri + k - 1) % Max]]
    IN  /\ \A j, k \in 1 .. Fill : j < k => Age(q[j]) > Age(q[k])
        /\ Fill > 0 => Age(last) > Age(q[1])

\* The handler waits, for ever, for a mutex of the thread that it interrupted.
SelfLocked == handler["loop"] # "none" /\ (~RecFree \/ ~PlyFree)

\* Handlers that overlapped left the recorder dropped with mPauseFlag cleared.
LeftOff == overlapped /\ Calm /\ ~pauseFlag /\ ~rec

\* Playing starts again after an underrun, unless it is paused or, by handlers that
\* overlapped, the thread waits for itself or the recorder was left off.
PlaysAgain == ~play ~> (play \/ pauseFlag \/ SelfLocked \/ LeftOff)

\* The ring never runs dry, and the delay stays what it was at the start.
SteadyDelay == NeverDry /\ DelayIsConstant
=============================================================================
