---------------------------- MODULE RtPlayerProofs ----------------------------
(***************************************************************************)
(* The safety of RtPlayer for every queue length, any number of signals    *)
(* handled on any of its threads at once, and devices of both kinds.       *)
(***************************************************************************)
EXTENDS RtPlayer, TLAPS

\* A handler has set mPauseFlag and not cleared the queue yet.
ClearComes == \E t \in Threads : handler[t] \in {"pause.rec", "pause.ply", "pause.clear"}

\* While paused the backlog is bounded, the chunk in flight counted from the
\* recorder's check on, or a handler is still to clear the queue.
PausedInFlight == pauseFlag => ClearComes \/ queued + InFlight <= 1

\* Until the player thread runs nobody takes a chunk: the flag is not stale.
PrefillIsFull ==
  /\ mainPc # "join" => Calm
  /\ mainPc = "prefill" => plyPc = "off"
  /\ plyPc = "off" =>
       /\ mainPc \in {"prefill", "crashed"}
       /\ wasFull \/ fullFlag => queued = Max

\* What a handler that is alone has done to the flags and the capture device so
\* far.
AloneSoFar ==
  ~overlapped =>
    /\ handler[Rec] = "none" /\ handler[Ply] = "none"
    /\ isPaused = (handler[Main] \in {"pause.flag", "pause.rec", "pause.ply", "pause.clear", "resume"}
                    \/ (handler[Main] = "none" /\ pauseFlag))
    /\ handler[Main] \in {"pause", "pause.flag", "resume.rec", "resume.ply"} => ~pauseFlag
    /\ handler[Main] \in {"pause.rec", "pause.ply", "pause.clear", "resume", "resume.flag"} => pauseFlag
    /\ ~pauseFlag /\ handler[Main] # "resume.rec" => Works(rec)

\* A PCM is paused if it can be, else dropped.
KindOfPause == (rec = "paused" => can_pause) /\ (rec = "stopped" => ~can_pause)

RtInv == TypeOK /\ PausedInFlight /\ PrefillIsFull /\ AloneSoFar /\ KindOfPause

LEMMA InitRtInv == Init => RtInv
<1> SUFFICES ASSUME Init PROVE RtInv
  OBVIOUS
<1>1. TypeOK
  <2>1. queued \in 0 .. Max /\ signals \in 0 .. MaxSignals /\ can_pause \in BOOLEAN
    BY RtPlayerAssumption DEF Init
  <2>2. handler \in [Threads -> Handler \cup {"none"}]
    BY DEF Init
  <2>3. QED
    BY <2>1, <2>2 DEF Init, TypeOK, Free, Rec, Ply
<1>2. PausedInFlight /\ PrefillIsFull
  BY DEF Init, PausedInFlight, PrefillIsFull, Calm
<1>3. AloneSoFar /\ KindOfPause
  BY DEF Init, AloneSoFar, KindOfPause, Works, Threads, Main, Rec, Ply
<1>4. QED
  BY <1>1, <1>2, <1>3 DEF RtInv

\* The recorder only adds a chunk it had begun to record before the pause.
LEMMA RecRtInv == ASSUME RtInv, RecStep PROVE RtInv'
<1> USE RtPlayerAssumption
    DEF RtInv, TypeOK, PausedInFlight, ClearComes, PrefillIsFull, Calm, AloneSoFar, KindOfPause,
        Works, InFlight, Free, Rec, Ply, exceptRec, recDev, plyDev, queue, sigs
<1>1. CASE RecTop
  BY <1>1 DEF RecTop
<1>2. CASE RecLock
  BY <1>2 DEF RecLock
<1>3. CASE RecRead
  BY <1>3 DEF RecRead
<1>4. CASE RecQueue
  BY <1>4 DEF RecQueue
<1>5. CASE RecPush
  BY <1>5 DEF RecPush
<1>6. CASE RecFlag
  BY <1>6 DEF RecFlag
<1>7. QED
  BY <1>1, <1>2, <1>3, <1>4, <1>5, <1>6 DEF RecStep

\* The player only takes chunks, and only once it has been started.
LEMMA PlyRtInv == ASSUME RtInv, PlyStep PROVE RtInv'
<1> USE RtPlayerAssumption
    DEF RtInv, TypeOK, PausedInFlight, ClearComes, PrefillIsFull, Calm, AloneSoFar, KindOfPause,
        Works, InFlight, Free, Rec, Ply, exceptPly, flags, recDev, plyDev, queue, sigs
<1>1. CASE PlyTop
  BY <1>1 DEF PlyTop
<1>2. CASE PlyWait
  BY <1>2 DEF PlyWait
<1>3. CASE PlyTake
  BY <1>3 DEF PlyTake
<1>4. CASE PlyLock
  BY <1>4 DEF PlyLock
<1>5. CASE PlyWrite
  BY <1>5 DEF PlyWrite
<1>6. CASE PlyUnderrun
  BY <1>6 DEF PlyUnderrun, AlsaPause
<1>7. CASE PlyRefill
  BY <1>7 DEF PlyRefill
<1>8. CASE PlyRestart
  BY <1>8 DEF PlyRestart, AlsaResume
<1>9. QED
  BY <1>1, <1>2, <1>3, <1>4, <1>5, <1>6, <1>7, <1>8 DEF PlyStep

\* The main thread.
LEMMA MainRtInv == ASSUME RtInv, MainStep PROVE RtInv'
<1> USE RtPlayerAssumption
    DEF RtInv, TypeOK, PausedInFlight, ClearComes, PrefillIsFull, Calm, AloneSoFar, KindOfPause,
        Works, InFlight, Free, Rec, Ply, exceptMain, flags, recDev, plyDev, queue, sigs
<1>1. CASE StartPlayer
  <2>1. /\ mainPc = "prefill" /\ mainPc' = "assign" /\ plyPc' = "top"
        /\ UNCHANGED <<can_pause, pauseFlag, fullFlag, wasFull, queued, queM, rec, recM, ply, plyM,
                      isPaused, signals, overlapped, recPc, handler>>
    BY <1>1 DEF StartPlayer
  <2>2. plyPc = "off"
    BY <2>1
  <2>3. TypeOK'
    BY <2>1, <2>2
  <2>4. PausedInFlight' /\ PrefillIsFull' /\ AloneSoFar' /\ KindOfPause'
    BY <2>1
  <2>5. QED
    BY <2>3, <2>4
<1>2. CASE Assign
  BY <1>2 DEF Assign
<1>3. QED
  BY <1>1, <1>2 DEF MainStep

-----------------------------------------------------------------------------
(* The handler, on any thread.                                              *)

LEMMA SignalRtInv == ASSUME RtInv, NEW t \in Threads, Signal(t) PROVE RtInv'
<1> USE DEF flags, queue, recDev, plyDev
<1>1. /\ signals' \in 0 .. MaxSignals /\ overlapped' \in BOOLEAN
      /\ mainPc' \in {"join", "crashed"}
      /\ handler' \in [Threads -> Handler \cup {"none"}]
  BY RtPlayerAssumption DEF RtInv, TypeOK, Signal, Goes, Handler
<1>2. TypeOK'
  BY <1>1 DEF RtInv, TypeOK, Signal
<1>3. ClearComes => ClearComes'
  BY DEF RtInv, TypeOK, ClearComes, Signal, Goes
<1>4. PausedInFlight'
  BY <1>3 DEF RtInv, PausedInFlight, InFlight, Signal
<1>5. PrefillIsFull'
  BY DEF RtInv, PrefillIsFull, Calm, Signal
<1>6. AloneSoFar'
  <2> SUFFICES ASSUME ~overlapped' PROVE AloneSoFar'
    BY DEF AloneSoFar
  <2>1. ~overlapped /\ Calm
    BY DEF Signal
  <2>2. t = Main
    BY <2>1 DEF Signal, Calm, Threads
  <2>3. CASE mainPc = "join"
    <3>1. /\ handler[Main] = "none" /\ handler[Rec] = "none" /\ handler[Ply] = "none"
          /\ isPaused = pauseFlag /\ (~pauseFlag => Works(rec))
      BY <2>1 DEF RtInv, TypeOK, AloneSoFar, Calm, Threads
    <3>2. handler'[Rec] = "none" /\ handler'[Ply] = "none"
      BY <2>2, <2>3, <3>1 DEF Signal, Goes, RtInv, TypeOK, Threads, Main, Rec, Ply
    <3>3. handler'[Main] = IF isPaused THEN "resume" ELSE "pause"
      BY <2>2, <2>3 DEF Signal, Goes, RtInv, TypeOK, Threads
    <3>4. QED
      BY <3>1, <3>2, <3>3 DEF AloneSoFar, Works, Signal, RtInv, TypeOK
  <2>4. CASE mainPc # "join"
    BY <2>1, <2>4 DEF Signal, RtInv, AloneSoFar, Works
  <2>5. QED
    BY <2>3, <2>4
<1>7. KindOfPause'
  BY DEF RtInv, KindOfPause, Signal
<1>8. QED
  BY <1>2, <1>4, <1>5, <1>6, <1>7 DEF RtInv

\* A handler is at one place after another.
LEMMA HandlerGoes ==
  ASSUME TypeOK, NEW t \in Threads, Handle(t)
  PROVE  /\ handler' \in [Threads -> Handler \cup {"none"}]
         /\ \A u \in Threads \ {t} : handler'[u] = handler[u]
         /\ handler[t] # "none"
BY DEF TypeOK, Handle, Toggle, SetFlag, HandleRec, HandlePly, PauseClear, Goes, Handler

\* Whoever sets mPauseFlag clears the queue afterwards.
LEMMA HandleFlag ==
  ASSUME RtInv, NEW t \in Threads, Handle(t)
  PROVE  PausedInFlight'
<1> USE DEF flags, queue, recDev, plyDev, sigs, pcs
<1>1. /\ \A u \in Threads \ {t} : handler'[u] = handler[u]
      /\ handler \in [Threads -> Handler \cup {"none"}] /\ queued \in Nat
  BY HandlerGoes, RtPlayerAssumption DEF RtInv, TypeOK
<1>2. CASE Toggle(t)
  <2>1. ClearComes => ClearComes'
    BY <1>1, <1>2 DEF Toggle, Goes, ClearComes
  <2>2. QED
    BY <1>2, <2>1 DEF Toggle, RtInv, PausedInFlight, InFlight
<1>3. CASE SetFlag(t)
  <2>1. pauseFlag' => ClearComes'
    BY <1>1, <1>3 DEF SetFlag, Goes, ClearComes
  <2>2. QED
    BY <2>1 DEF PausedInFlight
<1>4. CASE HandleRec(t)
  <2>1. ClearComes => ClearComes'
    BY <1>1, <1>4 DEF HandleRec, Goes, ClearComes
  <2>2. QED
    BY <1>4, <2>1 DEF HandleRec, RtInv, PausedInFlight, InFlight
<1>5. CASE HandlePly(t)
  <2>1. ClearComes => ClearComes'
    BY <1>1, <1>5 DEF HandlePly, Goes, ClearComes
  <2>2. QED
    BY <1>5, <2>1 DEF HandlePly, RtInv, PausedInFlight, InFlight
<1>6. CASE PauseClear(t)
  BY <1>6 DEF PauseClear, PausedInFlight, InFlight
<1>7. QED
  BY <1>2, <1>3, <1>4, <1>5, <1>6 DEF Handle

\* A handler that is alone sets both flags, then the device, to the same.
LEMMA HandleAlone ==
  ASSUME RtInv, NEW t \in Threads, Handle(t)
  PROVE  AloneSoFar' /\ KindOfPause'
<1> USE DEF flags, queue, recDev, plyDev, sigs, pcs
<1>1. KindOfPause'
  BY DEF RtInv, TypeOK, KindOfPause, Handle, Toggle, SetFlag, HandleRec, HandlePly, PauseClear,
         AlsaPause, AlsaResume
<1>2. AloneSoFar'
  <2>1. overlapped' = overlapped
    BY DEF Handle, Toggle, SetFlag, HandleRec, HandlePly, PauseClear
  <2> SUFFICES ASSUME ~overlapped PROVE AloneSoFar'
    BY <2>1 DEF AloneSoFar
  <2>2. handler[Rec] = "none" /\ handler[Ply] = "none" /\ handler[t] # "none"
    BY HandlerGoes DEF RtInv, AloneSoFar
  <2>3. t = Main
    BY <2>2 DEF Threads
  <2>4. handler'[Rec] = "none" /\ handler'[Ply] = "none"
    BY <2>2, <2>3, HandlerGoes DEF RtInv, Threads, Main, Rec, Ply
  <2>5. /\ handler \in [Threads -> Handler \cup {"none"}] /\ Main \in Threads
        /\ isPaused \in BOOLEAN /\ pauseFlag \in BOOLEAN /\ can_pause \in BOOLEAN
        /\ rec \in {"prepared", "running", "paused", "stopped"}
    BY DEF RtInv, TypeOK, Threads
  <2>6. CASE Toggle(Main)
    BY <2>2, <2>4, <2>5, <2>6 DEF Toggle, Goes, RtInv, AloneSoFar, Works
  <2>7. CASE SetFlag(Main)
    BY <2>2, <2>4, <2>5, <2>7 DEF SetFlag, Goes, RtInv, AloneSoFar, Works
  <2>8. CASE HandleRec(Main)
    BY <2>2, <2>4, <2>5, <2>8
    DEF HandleRec, Goes, RtInv, AloneSoFar, KindOfPause, Works, AlsaPause, AlsaResume
  <2>9. CASE HandlePly(Main)
    BY <2>2, <2>4, <2>5, <2>9 DEF HandlePly, Goes, RtInv, AloneSoFar, Works
  <2>10. CASE PauseClear(Main)
    BY <2>2, <2>4, <2>5, <2>10 DEF PauseClear, Goes, RtInv, AloneSoFar, Works
  <2>11. QED
    BY <2>3, <2>6, <2>7, <2>8, <2>9, <2>10 DEF Handle
<1>3. QED
  BY <1>1, <1>2

LEMMA HandleRtInv == ASSUME RtInv, NEW t \in Threads, Handle(t) PROVE RtInv'
<1> USE DEF flags, queue, recDev, plyDev, sigs, pcs
<1>1. handler' \in [Threads -> Handler \cup {"none"}] /\ handler[t] # "none"
  BY HandlerGoes DEF RtInv
<1>2. mainPc = "join" /\ plyPc # "off"
  BY <1>1 DEF RtInv, PrefillIsFull, Calm
<1>3. TypeOK'
  <2>1. plyPc = "take" => queM = Ply
    BY DEF RtInv, TypeOK, Free, Rec, Ply
  <2>2. queued' \in 0 .. Max /\ (plyPc' = "take" => queued' > 0)
    BY <2>1, RtPlayerAssumption
    DEF RtInv, TypeOK, Handle, Toggle, SetFlag, HandleRec, HandlePly, PauseClear, Free, Ply
  <2>3. /\ rec' \in {"prepared", "running", "paused", "stopped"}
        /\ ply' \in {"prepared", "running", "paused", "stopped", "xrun"}
        /\ isPaused' \in BOOLEAN /\ pauseFlag' \in BOOLEAN
    BY DEF RtInv, TypeOK, Handle, Toggle, SetFlag, HandleRec, HandlePly, PauseClear,
           AlsaPause, AlsaResume
  <2>4. UNCHANGED <<can_pause, fullFlag, wasFull, queM, recM, plyM, signals, overlapped, pcs>>
    BY DEF Handle, Toggle, SetFlag, HandleRec, HandlePly, PauseClear
  <2>5. QED
    BY <1>1, <2>2, <2>3, <2>4 DEF RtInv, TypeOK
<1>4. PrefillIsFull'
  BY <1>2 DEF Handle, Toggle, SetFlag, HandleRec, HandlePly, PauseClear, PrefillIsFull
<1>5. QED
  BY <1>3, <1>4, HandleFlag, HandleAlone DEF RtInv

LEMMA StutterRtInv == RtInv /\ UNCHANGED vars => RtInv'
  BY DEF RtInv, TypeOK, PausedInFlight, ClearComes, PrefillIsFull, Calm, AloneSoFar, KindOfPause,
         Works, InFlight, vars, flags, queue, recDev, plyDev, sigs, pcs

LEMMA AlwaysRtInv == Spec => []RtInv
<1>1. RtInv /\ [Next]_vars => RtInv'
  BY RecRtInv, PlyRtInv, MainRtInv, SignalRtInv, HandleRtInv, StutterRtInv
  DEF Next, RunRec, RunPly, RunMain, RunHandler
<1>2. QED
  BY InitRtInv, <1>1, PTL DEF Spec

-----------------------------------------------------------------------------
\* Every variable keeps its type, and the queue its length.
THEOREM RtTypeCorrect == Spec => []TypeOK
  BY AlwaysRtInv, PTL DEF RtInv

\* A player that is paused has at most one chunk of old sound queued, whatever the
\* device, wherever the recorder was and however many handlers overlapped.
THEOREM PauseBoundsBacklog == Spec => []PausedIsBounded
<1>1. RtInv => PausedIsBounded
  BY DEF RtInv, PausedInFlight, ClearComes, Calm, PausedIsBounded
<1>2. QED
  BY AlwaysRtInv, <1>1, PTL

\* The player thread is never started before the queue is full.
THEOREM PlayerStartsFull == Spec => StartsFull
<1>1. RtInv /\ [Next]_vars => [plyPc = "off" /\ plyPc' # "off" => queued = Max]_vars
  <2> SUFFICES ASSUME RtInv, Next, plyPc = "off", plyPc' # "off" PROVE queued = Max
    OBVIOUS
  <2> USE DEF pcs
  <2>1. CASE RecStep
    BY <2>1 DEF RecStep, RecTop, RecLock, RecRead, RecQueue, RecPush, RecFlag, exceptRec
  <2>2. CASE PlyStep
    BY <2>2 DEF PlyStep, PlyTop, PlyWait, PlyTake, PlyLock, PlyWrite, PlyUnderrun, PlyRefill,
                PlyRestart
  <2>3. CASE StartPlayer
    BY <2>3 DEF StartPlayer, RtInv, PrefillIsFull
  <2>4. CASE Assign
    BY <2>4 DEF Assign
  <2>5. ASSUME NEW t \in Threads, Handle(t) \/ Signal(t) PROVE FALSE
    BY <2>5 DEF Handle, Toggle, SetFlag, HandleRec, HandlePly, PauseClear, Signal
  <2>6. QED
    BY <2>1, <2>2, <2>3, <2>4, <2>5 DEF Next, RunRec, RunPly, RunMain, RunHandler, MainStep
<1>2. QED
  BY AlwaysRtInv, <1>1, PTL DEF Spec, StartsFull

\* Handlers that do not overlap leave isPaused, mPauseFlag and the capture device
\* in agreement.
THEOREM AloneAgrees == Spec => []AloneItIsRight
<1>1. RtInv => AloneItIsRight
  BY DEF RtInv, TypeOK, AloneSoFar, AloneItIsRight, LeftOff, Calm, Works, Threads
<1>2. QED
  BY AlwaysRtInv, <1>1, PTL

\* For every capacity of the queue and any overlap of handlers: a pause leaves at
\* most the chunk in flight, and playing starts from a full queue; without overlap
\* the flags and the device are as the last signal asked.
THEOREM PausesAreRight == Spec => PauseIsRight
  BY PauseBoundsBacklog, PlayerStartsFull, AloneAgrees, PTL DEF PauseIsRight
=============================================================================
