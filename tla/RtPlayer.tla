------------------------------ MODULE RtPlayer ------------------------------
(***************************************************************************)
(* app/multiBox/src/RtPlayer: a recorder thread copies chunks from a       *)
(* capture device into an MTQueue (cycWrite), a player thread from there   *)
(* to a playback device, and SIGUSR1 pauses and resumes both.  MTQueue is  *)
(* what BoundedFifo promises of it, counted: here only how many chunks are *)
(* queued matters.                                                         *)
(*                                                                         *)
(* signal() blocks SIGUSR1 on the thread that runs the handler and on no   *)
(* other: the next one is handled on a thread that is not in its handler,  *)
(* wherever that is interrupted, with whatever mutex it holds.             *)
(*                                                                         *)
(* The devices are external: an alsa_ctrl holds its mutex while it reads   *)
(* or writes, and the state of the PCM decides what a call does.           *)
(***************************************************************************)
EXTENDS Naturals

CONSTANTS
  Max,        \* pMTQPar->mMax
  CanPause,   \* what can_pause of the devices may be
  MaxSignals  \* bound: how many SIGUSR1 arrive

ASSUME RtPlayerAssumption ==
  Max \in Nat \ {0} /\ CanPause \subseteq BOOLEAN /\ MaxSignals \in Nat

VARIABLES
  can_pause,           \* of both devices
  pauseFlag, fullFlag, \* mPauseFlag, mFullFlag
  queued, queM,        \* mMTQ: how many chunks, owner of its mutex
  wasFull,             \* what cycWrite returned to the recorder
  rec, ply,            \* PCM states of mRec and mPly
  recM, plyM,          \* owners of their mutexes
  isPaused, signals,   \* sig_handle's static flag, SIGUSR1s so far
  overlapped,          \* history: one was handled while another was
  recPc, plyPc, mainPc,
  handler              \* where each thread is in the handler, if it is

flags  == <<pauseFlag, fullFlag, wasFull>>
queue  == <<queued, queM>>
recDev == <<rec, recM>>
plyDev == <<ply, plyM>>
sigs   == <<isPaused, signals, overlapped>>
pcs    == <<recPc, plyPc, mainPc>>
vars == <<can_pause, flags, queue, recDev, plyDev, sigs, pcs, handler>>

Free == "free"
Main == "main"
Rec  == "recorder"
Ply  == "player"
Threads == {Main, Rec, Ply}

Init ==
  /\ can_pause \in CanPause
  /\ pauseFlag = FALSE /\ fullFlag = FALSE /\ queued = 0 /\ queM = Free /\ wasFull = FALSE
  /\ rec = "prepared" /\ ply = "prepared" /\ recM = Free /\ plyM = Free
  /\ isPaused = FALSE /\ signals = 0 /\ overlapped = FALSE
  /\ recPc = "top" /\ plyPc = "off" /\ mainPc = "prefill"
  /\ handler = [t \in Threads |-> "none"]

\* alsa_ctrl_pause: snd_pcm_pause works on a running PCM only, snd_pcm_drop always.
AlsaPause(pcm) ==
  IF ~can_pause THEN "stopped" ELSE IF pcm = "running" THEN "paused" ELSE pcm

\* alsa_ctrl_resume: release the pause, or prepare, which a running PCM refuses.
AlsaResume(pcm) ==
  IF can_pause THEN (IF pcm = "paused" THEN "running" ELSE pcm)
  ELSE IF pcm = "running" THEN pcm ELSE "prepared"

Works(pcm) == pcm \in {"prepared", "running"}

-----------------------------------------------------------------------------
(* The recorder thread.                                                     *)

exceptRec == <<can_pause, pauseFlag, plyDev, sigs, plyPc, mainPc, handler>>

RecTop ==
  /\ recPc = "top" /\ ~pauseFlag /\ recPc' = "lock"
  /\ UNCHANGED <<exceptRec, fullFlag, queue, wasFull, recDev>>

RecLock ==
  /\ recPc = "lock" /\ recM = Free
  /\ recM' = Rec /\ recPc' = "read"
  /\ UNCHANGED <<exceptRec, fullFlag, queue, wasFull, rec>>

RecRead_KeepsMutex ==
  /\ recPc = "read"
  /\ \/ Works(rec) /\ rec' = "running" /\ recM' = Free /\ recPc' = "queue"
     \/ rec = "stopped" /\ recPc' = "top" /\ UNCHANGED recDev
  /\ UNCHANGED <<exceptRec, fullFlag, queue, wasFull>>

\* alsa_ctrl_read_stream: overruns are repaired inside; a stopped PCM reads
\* nothing; a paused one blocks the thread, which keeps the mutex.
RecRead ==
  /\ recPc = "read"
  /\ \/ Works(rec) /\ rec' = "running" /\ recPc' = "queue"
     \/ rec = "stopped" /\ recPc' = "top" /\ UNCHANGED rec
  /\ recM' = Free
  /\ UNCHANGED <<exceptRec, fullFlag, queue, wasFull>>

RecQueue ==
  /\ recPc = "queue" /\ queM = Free
  /\ queM' = Rec /\ recPc' = "push"
  /\ UNCHANGED <<exceptRec, fullFlag, queued, wasFull, recDev>>

RecPush_NoDrop ==
  /\ recPc = "push" /\ recPc' = "flag"
  /\ wasFull' = (queued >= Max) /\ queued' = queued + 1 /\ queM' = Free
  /\ UNCHANGED <<exceptRec, fullFlag, recDev>>

\* cycWrite: a full queue gives up its oldest chunk.
RecPush ==
  /\ recPc = "push" /\ recPc' = "flag"
  /\ wasFull' = (queued >= Max)
  /\ queued' = (IF queued >= Max THEN queued ELSE queued + 1) /\ queM' = Free
  /\ UNCHANGED <<exceptRec, fullFlag, recDev>>

RecFlag_Lost ==
  /\ recPc = "flag" /\ recPc' = "top"
  /\ UNCHANGED <<exceptRec, fullFlag, queue, wasFull, recDev>>

RecFlag ==
  /\ recPc = "flag" /\ recPc' = "top"
  /\ fullFlag' = wasFull
  /\ UNCHANGED <<exceptRec, queue, wasFull, recDev>>

RecStep == RecTop \/ RecLock \/ RecRead \/ RecQueue \/ RecPush \/ RecFlag

-----------------------------------------------------------------------------
(* The player thread.                                                       *)

exceptPly == <<can_pause, flags, recDev, sigs, recPc, mainPc, handler>>

PlyTop ==
  /\ plyPc = "top" /\ ~pauseFlag /\ plyPc' = "wait"
  /\ UNCHANGED <<exceptPly, queue, plyDev>>

\* mMTQ->read() waits for a chunk, whatever becomes of mPauseFlag, and has the
\* mutex only when there is one.
PlyWait ==
  /\ plyPc = "wait" /\ queued > 0 /\ queM = Free
  /\ queM' = Ply /\ plyPc' = "take"
  /\ UNCHANGED <<exceptPly, queued, plyDev>>

PlyTake ==
  /\ plyPc = "take"
  /\ queued' = queued - 1 /\ queM' = Free /\ plyPc' = "lock"
  /\ UNCHANGED <<exceptPly, plyDev>>

PlyLock ==
  /\ plyPc = "lock" /\ plyM = Free
  /\ plyM' = Ply /\ plyPc' = "write"
  /\ UNCHANGED <<exceptPly, queue, ply>>

\* alsa_ctrl_write_stream: a running PCM may have run dry, a stopped one takes
\* nothing, a paused one blocks the thread.
PlyWrite ==
  /\ plyPc = "write"
  /\ \/ Works(ply) /\ ply' = "running" /\ plyPc' = "top"
     \/ ply = "running" /\ ply' = "xrun" /\ plyPc' = "underrun"
     \/ ply \in {"stopped", "xrun"} /\ plyPc' = "underrun" /\ UNCHANGED ply
  /\ plyM' = Free
  /\ UNCHANGED <<exceptPly, queue>>

PlyUnderrun ==
  /\ plyPc = "underrun" /\ plyM = Free
  /\ ply' = AlsaPause(ply) /\ plyPc' = "refill"
  /\ UNCHANGED <<exceptPly, queue, plyM>>

PlyRefill ==
  /\ plyPc = "refill" /\ fullFlag /\ plyPc' = "restart"
  /\ UNCHANGED <<exceptPly, queue, plyDev>>

PlyRestart_StaysOff ==
  /\ plyPc = "restart" /\ plyPc' = "top"
  /\ UNCHANGED <<exceptPly, queue, plyDev>>

\* alsa_ctrl_resume and the delete of the chunk; mPauseFlag is not looked at.
PlyRestart ==
  /\ plyPc = "restart" /\ plyM = Free
  /\ ply' = AlsaResume(ply) /\ plyPc' = "top"
  /\ UNCHANGED <<exceptPly, queue, plyM>>

PlyStep ==
  \/ PlyTop \/ PlyWait \/ PlyTake \/ PlyLock
  \/ PlyWrite \/ PlyUnderrun \/ PlyRefill \/ PlyRestart

-----------------------------------------------------------------------------
(* The main thread: the constructor, and the join in the destructor.        *)

exceptMain == <<can_pause, flags, queue, recDev, plyDev, sigs, recPc, handler>>

StartPlayer_NoPrefill ==
  /\ mainPc = "prefill"
  /\ plyPc' = "top" /\ mainPc' = "assign"
  /\ UNCHANGED exceptMain

StartPlayer ==
  /\ mainPc = "prefill" /\ fullFlag
  /\ plyPc' = "top" /\ mainPc' = "assign"
  /\ UNCHANGED exceptMain

\* g_mRtPlayer = mRtPlayer, then the destructor, whose joins never return.
Assign ==
  /\ mainPc = "assign" /\ mainPc' = "join"
  /\ UNCHANGED <<exceptMain, plyPc>>

MainStep == StartPlayer \/ Assign

-----------------------------------------------------------------------------
(* The signal handler.                                                      *)

Calm == \A t \in Threads : handler[t] = "none"

Goes(t, from, to) == handler[t] = from /\ handler' = [handler EXCEPT ![t] = to]

\* A process has its signals handled by the main thread, unless that blocks
\* them, then by any other that exists.  The handler looks at isPaused; before
\* Assign it calls pause() on a null pointer.
Signal(t) ==
  /\ signals < MaxSignals /\ signals' = signals + 1
  /\ t = Main \/ (handler[Main] # "none" /\ (t = Ply => plyPc # "off"))
  /\ overlapped' = (overlapped \/ ~Calm)
  /\ \/ mainPc = "join" /\ Goes(t, "none", IF isPaused THEN "resume" ELSE "pause")
        /\ UNCHANGED mainPc
     \/ mainPc # "join" /\ mainPc' = "crashed" /\ UNCHANGED handler
  /\ UNCHANGED <<can_pause, flags, queue, recDev, plyDev, isPaused, recPc, plyPc>>

Toggle_Stays(t) ==
  /\ Goes(t, "pause", "pause.flag") \/ Goes(t, "resume", "resume.flag")
  /\ isPaused' = TRUE
  /\ UNCHANGED <<can_pause, flags, queue, recDev, plyDev, signals, overlapped, pcs>>

\* isPaused, which the handler may by now share with another one.
Toggle(t) ==
  /\ \/ Goes(t, "pause", "pause.flag") /\ isPaused' = TRUE
     \/ Goes(t, "resume", "resume.flag") /\ isPaused' = FALSE
  /\ UNCHANGED <<can_pause, flags, queue, recDev, plyDev, signals, overlapped, pcs>>

SetFlag(t) ==
  /\ \/ Goes(t, "pause.flag", "pause.rec") /\ pauseFlag' = TRUE
     \/ Goes(t, "resume.flag", "resume.rec") /\ pauseFlag' = FALSE
  /\ UNCHANGED <<can_pause, fullFlag, wasFull, queue, recDev, plyDev, sigs, pcs>>

\* A device, once its mutex is free: it may be the thread's own.
HandleRec(t) ==
  /\ recM = Free
  /\ \/ Goes(t, "pause.rec", "pause.ply") /\ rec' = AlsaPause(rec)
     \/ Goes(t, "resume.rec", "resume.ply") /\ rec' = AlsaResume(rec)
  /\ UNCHANGED <<can_pause, flags, queue, recM, plyDev, sigs, pcs>>

HandlePly(t) ==
  /\ plyM = Free
  /\ \/ Goes(t, "pause.ply", "pause.clear") /\ ply' = AlsaPause(ply)
     \/ Goes(t, "resume.ply", "none") /\ ply' = AlsaResume(ply)
  /\ UNCHANGED <<can_pause, flags, queue, recDev, plyM, sigs, pcs>>

PauseClear_Skipped(t) ==
  /\ queM = Free /\ Goes(t, "pause.clear", "none")
  /\ UNCHANGED <<can_pause, flags, queue, recDev, plyDev, sigs, pcs>>

PauseClear(t) ==
  /\ queM = Free /\ Goes(t, "pause.clear", "none") /\ queued' = 0
  /\ UNCHANGED <<can_pause, flags, queM, recDev, plyDev, sigs, pcs>>

Handle(t) == Toggle(t) \/ SetFlag(t) \/ HandleRec(t) \/ HandlePly(t) \/ PauseClear(t)

-----------------------------------------------------------------------------
Crashed == mainPc = "crashed"

\* A thread goes on when it is not in the handler.
RunRec  == ~Crashed /\ handler[Rec] = "none" /\ RecStep
RunPly  == ~Crashed /\ handler[Ply] = "none" /\ PlyStep
RunMain == ~Crashed /\ handler[Main] = "none" /\ MainStep
RunHandler(t) == ~Crashed /\ Handle(t)

Next == \/ RunRec \/ RunPly \/ RunMain
        \/ \E t \in Threads : RunHandler(t) \/ (~Crashed /\ Signal(t))

Spec == Init /\ [][Next]_vars

\* The threads are scheduled, in the handler as well, capture devices deliver and
\* playback devices drain (unless paused or stopped), and a thread gets a mutex
\* that is free again and again; no signal need come.
FairSpec == /\ Spec /\ SF_vars(RunRec) /\ SF_vars(RunPly) /\ WF_vars(RunMain)
            /\ \A t \in Threads : SF_vars(RunHandler(t))

-----------------------------------------------------------------------------
Handler == {"pause", "pause.flag", "pause.rec", "pause.ply", "pause.clear",
            "resume", "resume.flag", "resume.rec", "resume.ply"}

TypeOK ==
  /\ can_pause \in BOOLEAN
  /\ pauseFlag \in BOOLEAN /\ fullFlag \in BOOLEAN /\ wasFull \in BOOLEAN
  /\ queued \in 0..Max /\ (plyPc = "take" => queued > 0)
  /\ rec \in {"prepared", "running", "paused", "stopped"}
  /\ ply \in {"prepared", "running", "paused", "stopped", "xrun"}
  /\ recM = (IF recPc = "read" THEN Rec ELSE Free)
  /\ plyM = (IF plyPc = "write" THEN Ply ELSE Free)
  /\ queM \in {Free, Rec, Ply} /\ (queM = Rec <=> recPc = "push") /\ (queM = Ply <=> plyPc = "take")
  /\ isPaused \in BOOLEAN /\ signals \in 0..MaxSignals /\ overlapped \in BOOLEAN
  /\ recPc \in {"top", "lock", "read", "queue", "push", "flag"}
  /\ plyPc \in {"off", "top", "wait", "take", "lock", "write", "underrun", "refill", "restart"}
  /\ mainPc \in {"prefill", "assign", "join", "crashed"}
  /\ handler \in [Threads -> Handler \cup {"none"}]

\* The chunk the recorder may still add to the queue without looking at
\* mPauseFlag again.
InFlight == IF recPc \in {"lock", "read", "queue", "push"} THEN 1 ELSE 0

\* A player that is paused has at most one chunk of old sound to play after
\* resume(), however the handlers of several signals overlapped: who set
\* mPauseFlag last clears the queue after that, and the recorder may have been
\* past its check.
PausedIsBounded == pauseFlag /\ Calm => queued + InFlight <= 1

\* The player thread starts on a full queue: the prefill of the constructor.
StartsFull == [][plyPc = "off" /\ plyPc' # "off" => queued = Max]_vars

\* A handler waits, for ever, for a mutex of the thread that it interrupted.
SelfLocked ==
  \/ recM = Rec /\ handler[Rec] # "none"
  \/ plyM = Ply /\ handler[Ply] # "none"
  \/ \E t \in {Rec, Ply} :
       queM = t /\ handler[t] \in {"pause", "pause.flag", "pause.rec", "pause.ply", "pause.clear"}

\* pause() and resume() return to what the signal interrupted, unless that was a
\* thread with a mutex they need: no other keeps one and cannot go on.
HandlersReturn == \A t \in Threads : handler[t] # "none" ~> handler[t] = "none" \/ SelfLocked

\* A thread past its check of mPauseFlag is in a device with hardware pause that
\* was paused meanwhile, with the mutex that resume() needs.
InPausedDevice == (recPc = "read" /\ rec = "paused") \/ (plyPc = "write" /\ ply = "paused")

HandlersGoOn ==
  \A t \in Threads :
    handler[t] # "none" ~> handler[t] = "none" \/ SelfLocked \/ InPausedDevice

\* The capture device was left paused or dropped with mPauseFlag cleared.
LeftOff == Calm /\ ~pauseFlag /\ rec \in {"paused", "stopped"}

\* That, and an isPaused that is not mPauseFlag, takes handlers that overlap.
AloneItIsRight == Calm /\ ~overlapped => isPaused = pauseFlag /\ ~LeftOff

Halted == Crashed \/ SelfLocked \/ InPausedDevice \/ LeftOff \/ pauseFlag

\* Unless paused, the player reaches the device again and again: it starts, and
\* comes back from every wait for chunks and every refill.
PlaysOn == []<>(plyPc = "write" \/ Halted)

\* An underrun is repaired: the device runs again, unless it has a hardware pause,
\* which an underrun refuses.
UnderrunRecovers == ply = "xrun" ~> (ply = "running" \/ can_pause \/ Halted)

\* What is queued when playing begins, first or again: all of a full queue, and
\* nothing from before a pause; and handlers that do not overlap leave the flags
\* and the capture device as the last signal asked.
PauseIsRight == []PausedIsBounded /\ StartsFull /\ []AloneItIsRight

\* The handlers, the player and the devices come back from whatever stops them, or
\* one of the states named above has been reached.
GoesOn == HandlersGoOn /\ PlaysOn /\ UnderrunRecovers
=============================================================================
