-------------------------- MODULE AudioPlayerProofs --------------------------
(***************************************************************************)
(* The safety of AudioPlayer for every pool size, number of tracks, set of *)
(* operations used and state of the device.  IInv is the conjunction of    *)
(* the invariants TLC checks and of the four facts below, which make it    *)
(* inductive; one lemma per thread shows that its steps preserve it.       *)
(***************************************************************************)
EXTENDS AudioPlayer, TLAPS

StopPcs == {"stop.flag", "stop.clear", "stop.lockDecode", "stop.lockPlay",
            "stop.body", "stop.unlock"}

\* What main knows during a call: a track remains to be started, stopFlag
\* stays set during audioStop, the threads joined so far are gone.
CallInProgress ==
  /\ mainPc \in {"play.lockDecode", "play.lockPlay", "play.body"} => session < MaxPlays
  /\ mainPc \in StopPcs /\ op = "play" => session < MaxPlays
  /\ mainPc \in StopPcs \ {"stop.flag"} => stopFlag
  /\ mainPc \in {"destroy.joinDecode", "destroyed"} => playPc = "done"
  /\ mainPc = "destroyed" => decPc = "done"

\* Where the contexts can be allocated, and where they must be.
ContextsOwned ==
  /\ ctx # {} => decPc \in DecSection \ {"open", "setEnd"}
  /\ decPc \in {"read", "push"} \/ (decPc = "loop" /\ ~stopFlag) => ctx = Contexts

\* The decoder works on the current track wherever it may push again.
DecoderCurrent == decPc \in {"retryEof", "retryError"} => decTrack = session

\* The end flag is raised with m_url empty, which keeps the decoder parked.
EndHasNoUrl ==
  /\ endFlag \/ playPc \in {"finish", "endReport"} \/ status = "FINISHED" => url = 0
  /\ decPc = "setEnd" => url = 0

\* Idle means stopped, or never started.
IdleIsStopped ==
  /\ status = "IDLE" => stopFlag \/ session = 0
  /\ session = 0 => decPc \notin DecSection /\ playPc \notin PlaySection

IInv ==
  /\ TypeOK /\ LockDiscipline /\ NoStaleChunk /\ PauseSilencesDevice
  /\ EndFlagIsFinal /\ SilentAfterStop
  /\ CallInProgress /\ ContextsOwned /\ DecoderCurrent /\ EndHasNoUrl /\ IdleIsStopped

LEMMA InitIInv == Init => IInv
<1> SUFFICES ASSUME Init PROVE IInv
  OBVIOUS
<1> USE ConstantsAssumption DEF Init, Free, Main, Dec, Play, DecSection, PlaySection
<1>1. TypeOK
  <2>1. pool \in Seq(1..MaxPlays) /\ Len(pool) <= Cap
    OBVIOUS
  <2>2. ctx \in Partial /\ mainPc \in MainPcs
    BY DEF Partial, MainPcs
  <2>3. decPc \in DecPcs /\ playPc \in PlayPcs
    BY DEF DecPcs, PlayPcs
  <2>4. /\ stopFlag \in BOOLEAN /\ pauseFlag \in BOOLEAN /\ finishFlag \in BOOLEAN
        /\ alive \in BOOLEAN /\ endFlag \in BOOLEAN /\ dirty \in BOOLEAN
    OBVIOUS
  <2>5. url \in {0, session} /\ session \in 0..MaxPlays /\ decTrack \in 0..MaxPlays /\ held \in 0..MaxPlays
    OBVIOUS
  <2>6. decodeM \in {Free, Main, Dec} /\ playM \in {Free, Main, Play} /\ alsaM \in {Free, Main, Play}
    OBVIOUS
  <2>7. op \in {"play", "stop"} /\ status \in {"IDLE", "PLAY", "STOP", "FINISHED"}
    OBVIOUS
  <2>8. QED
    BY <2>1, <2>2, <2>3 , <2>4, <2>5, <2>6, <2>7 DEF TypeOK
<1>2. LockDiscipline /\ NoStaleChunk /\ PauseSilencesDevice
  BY DEF LockDiscipline, NoStaleChunk, PauseSilencesDevice
<1>3. EndFlagIsFinal /\ SilentAfterStop
  BY DEF EndFlagIsFinal, SilentAfterStop
<1>4. CallInProgress /\ ContextsOwned /\ DecoderCurrent /\ EndHasNoUrl /\ IdleIsStopped
  BY DEF CallInProgress, StopPcs, ContextsOwned, DecoderCurrent, EndHasNoUrl, IdleIsStopped
<1>5. QED
  BY <1>1, <1>2, <1>3, <1>4 DEF IInv

LEMMA PlayBodyIInv == IInv /\ PlayBody => IInv'
<1> SUFFICES ASSUME IInv, PlayBody PROVE IInv'
  OBVIOUS
<1> USE ConstantsAssumption DEF IInv, PlayBody, PoolClear, Signalled, Free, Main, Dec, Play,
      DecSection, PlaySection
<1>1. TypeOK'
  <2>1. (pool \in Seq(1..MaxPlays) /\ Len(pool) <= Cap)'
    OBVIOUS
  <2>2. (session \in 0..MaxPlays /\ mainPc \in MainPcs)'
    BY DEF TypeOK, MainPcs, CallInProgress
  <2>3. (decPc \in DecPcs /\ playPc \in PlayPcs)'
    BY DEF TypeOK, DecPcs, PlayPcs
  <2>4. QED
    BY <2>1, <2>2, <2>3 DEF TypeOK
<1>2. LockDiscipline' /\ PauseSilencesDevice'
  BY DEF TypeOK, LockDiscipline, PauseSilencesDevice
<1>3. NoStaleChunk'
  BY DEF TypeOK, LockDiscipline, NoStaleChunk
<1>4. EndFlagIsFinal' /\ SilentAfterStop'
  BY DEF TypeOK, LockDiscipline, EndFlagIsFinal, SilentAfterStop
<1>5. CallInProgress' /\ ContextsOwned' /\ DecoderCurrent' /\ EndHasNoUrl' /\ IdleIsStopped'
  BY DEF TypeOK, LockDiscipline, CallInProgress, StopPcs, ContextsOwned, DecoderCurrent, EndHasNoUrl, IdleIsStopped
<1>6. QED
  BY <1>1, <1>2, <1>3, <1>4, <1>5 DEF IInv

\* The caller's steps.  StopBody and PlayBody run with both mutexes, hence with
\* both threads out of their sections; the rest touches flags the threads re-read.
LEMMA MainIInv ==
  ASSUME IInv,
         \/ CallPlay \/ CallStop \/ StopFlag \/ StopClear \/ StopLockDecode
         \/ StopLockPlay \/ StopBody \/ StopUnlock \/ PlayLockDecode
         \/ PlayLockPlay \/ PlayUnlock \/ CallPause \/ PauseAlsa
         \/ CallResume \/ ResumeAlsa \/ CallDestroy \/ DestroyFlag
         \/ DestroySignalPlay \/ DestroySignalDecode \/ DestroyJoin
  PROVE  IInv'
<1> USE ConstantsAssumption
    DEF IInv, TypeOK, LockDiscipline, NoStaleChunk, PauseSilencesDevice, EndFlagIsFinal,
        SilentAfterStop, CallInProgress, StopPcs, ContextsOwned, DecoderCurrent,
        EndHasNoUrl, IdleIsStopped, DecSection, PlaySection, MainPcs, DecPcs, PlayPcs,
        Free, Main, Dec, Play, Done, Partial, Contexts, flags, locks, poolVars,
        exceptDecode, exceptPlay, mainLocal, decLocal, playLocal
<1>1. CASE CallPlay
  BY <1>1 DEF CallPlay
<1>2. CASE CallStop
  BY <1>2 DEF CallStop
<1>3. CASE StopFlag
  BY <1>3 DEF StopFlag
<1>4. CASE StopClear
  <2>1. endFlag' \in BOOLEAN /\ dirty' \in BOOLEAN
    BY <1>4 DEF StopClear, PoolClear
  <2>2. pool' = <<>>
    BY <1>4 DEF StopClear, PoolClear
  <2>3. pool' \in Seq(1..MaxPlays) /\ Len(pool') = 0
    BY <2>2
  <2>4. TypeOK'
    BY <1>4, <2>1, <2>3 DEF StopClear
  <2>5. NoStaleChunk'
    BY <1>4, <2>3 DEF StopClear
  <2>6. QED
    BY <1>4, <2>1, <2>4, <2>5 DEF StopClear, PoolClear
<1>5. CASE StopLockDecode
  BY <1>5 DEF StopLockDecode, LockDecode
<1>6. CASE StopLockPlay
  BY <1>6 DEF StopLockPlay, LockPlay
<1>7. CASE StopBody
  BY <1>7 DEF StopBody
<1>8. CASE StopUnlock
  BY <1>8 DEF StopUnlock, UnlockDecode
<1>9. CASE PlayLockDecode
  BY <1>9 DEF PlayLockDecode, LockDecode
<1>10. CASE PlayLockPlay
  BY <1>10 DEF PlayLockPlay, LockPlay
<1>11. CASE PlayUnlock
  BY <1>11 DEF PlayUnlock, UnlockDecode
<1>12. CASE CallPause
  BY <1>12 DEF CallPause
<1>13. CASE PauseAlsa
  BY <1>13 DEF PauseAlsa
<1>14. CASE CallResume
  <2>1. TypeOK'
    <3>1. pauseFlag' \in BOOLEAN
      BY <1>14 DEF CallResume
    <3>2. QED
      BY <1>14, <3>1 DEF CallResume
  <2>2. QED
    BY <1>14, <2>1 DEF CallResume
<1>15. CASE ResumeAlsa
  BY <1>15 DEF ResumeAlsa
<1>16. CASE CallDestroy
  <2>1. TypeOK'
    <3>1. alive' \in BOOLEAN
      BY <1>16 DEF CallDestroy
    <3>2. QED
      BY <1>16, <3>1 DEF CallDestroy
  <2>2. QED
    BY <1>16, <2>1 DEF CallDestroy
<1>17. CASE DestroyFlag
  BY <1>17 DEF DestroyFlag
<1>18. CASE DestroySignalPlay
  BY <1>18 DEF DestroySignalPlay, Signalled
<1>19. CASE DestroySignalDecode
  BY <1>19 DEF DestroySignalDecode, Signalled
<1>20. CASE DestroyJoin
  BY <1>20 DEF DestroyJoin
<1>21. QED
  BY <1>1, <1>2, <1>3, <1>4, <1>5, <1>6, <1>7, <1>8, <1>9, <1>10, <1>11, <1>12,
     <1>13, <1>14, <1>15, <1>16, <1>17, <1>18, <1>19, <1>20

\* The decode thread's steps.  They rely on m_decodeMutex: the current track and
\* the contexts do not change under the decoder.
LEMMA DecodeIInv ==
  ASSUME IInv,
         \/ DecTop \/ DecEnter \/ DecSpuriousWake \/ DecOpen \/ DecLoop
         \/ DecRead \/ DecPush \/ DecRetryEof \/ DecRetryError \/ DecFree
         \/ DecSetEnd
  PROVE  IInv'
<1> USE ConstantsAssumption
    DEF IInv, TypeOK, LockDiscipline, NoStaleChunk, PauseSilencesDevice, EndFlagIsFinal,
        SilentAfterStop, CallInProgress, StopPcs, ContextsOwned, DecoderCurrent,
        EndHasNoUrl, IdleIsStopped, DecSection, PlaySection, MainPcs, DecPcs, PlayPcs,
        Free, Main, Dec, Play, Done, Partial, Contexts, flags, locks, poolVars,
        exceptDecode, exceptPlay, mainLocal, decLocal, playLocal
<1>1. CASE DecTop
  BY <1>1 DEF DecTop
<1>2. CASE DecEnter
  BY <1>2 DEF DecEnter
<1>3. CASE DecSpuriousWake
  BY <1>3 DEF DecSpuriousWake
<1>4. CASE DecOpen
  BY <1>4 DEF DecOpen
<1>5. CASE DecLoop
  BY <1>5 DEF DecLoop
<1>6. CASE DecRead
  BY <1>6 DEF DecRead
<1>7. CASE DecPush
  BY <1>7 DEF DecPush, PoolPush
<1>8. CASE DecRetryEof
  BY <1>8 DEF DecRetryEof, RetryDecode
<1>9. CASE DecRetryError
  BY <1>9 DEF DecRetryError, RetryDecode
<1>10. CASE DecFree
  BY <1>10 DEF DecFree
<1>11. CASE DecSetEnd
  BY <1>11 DEF DecSetEnd, PoolSetEnd
<1>12. QED
  BY <1>1, <1>2, <1>3, <1>4, <1>5, <1>6, <1>7, <1>8, <1>9, <1>10, <1>11

\* The play thread's steps.
LEMMA PlayIInv ==
  ASSUME IInv,
         \/ PlayTop \/ PlayEnter \/ PlaySpuriousWake \/ PlayLoop \/ PlayPop
         \/ PlayPush \/ PlayWrite \/ PlayEndCheck \/ PlayHungry \/ PlayFinish
         \/ PlayEnd \/ PlayExit
  PROVE  IInv'
<1> USE ConstantsAssumption
    DEF IInv, TypeOK, LockDiscipline, NoStaleChunk, PauseSilencesDevice, EndFlagIsFinal,
        SilentAfterStop, CallInProgress, StopPcs, ContextsOwned, DecoderCurrent,
        EndHasNoUrl, IdleIsStopped, DecSection, PlaySection, MainPcs, DecPcs, PlayPcs,
        Free, Main, Dec, Play, Done, Partial, Contexts, flags, locks, poolVars,
        exceptDecode, exceptPlay, mainLocal, decLocal, playLocal
<1>1. CASE PlayTop
  BY <1>1 DEF PlayTop
<1>2. CASE PlayEnter
  BY <1>2 DEF PlayEnter
<1>3. CASE PlaySpuriousWake
  BY <1>3 DEF PlaySpuriousWake
<1>4. CASE PlayLoop
  BY <1>4 DEF PlayLoop
<1>5. CASE PlayPop
  <2>1. CASE PoolPop /\ playPc' = "push"
    <3>1. held' \in 1..MaxPlays /\ held' = session
      BY <2>1 DEF PoolPop
    <3>2. pool' \in Seq(1..MaxPlays) /\ Len(pool') = Len(pool) - 1
      BY <2>1 DEF PoolPop
    <3>3. \A i \in 1..Len(pool') : pool'[i] = session
      BY <2>1, <3>2 DEF PoolPop
    <3>4. QED
      BY <1>5, <2>1, <3>1, <3>2, <3>3 DEF PlayPop, PoolPop
  <2>2. CASE pool = <<>> /\ playPc' = "endCheck" /\ UNCHANGED <<poolVars, held>>
    BY <1>5, <2>2 DEF PlayPop
  <2>3. QED
    BY <1>5, <2>1, <2>2 DEF PlayPop
<1>6. CASE PlayPush
  BY <1>6 DEF PlayPush
<1>7. CASE PlayWrite
  BY <1>7 DEF PlayWrite
<1>8. CASE PlayEndCheck
  BY <1>8 DEF PlayEndCheck
<1>9. CASE PlayHungry
  BY <1>9 DEF PlayHungry, PoolRefilled
<1>10. CASE PlayFinish
  BY <1>10 DEF PlayFinish
<1>11. CASE PlayEnd
  BY <1>11 DEF PlayEnd
<1>12. CASE PlayExit
  BY <1>12 DEF PlayExit
<1>13. QED
  BY <1>1, <1>2, <1>3, <1>4, <1>5, <1>6, <1>7, <1>8, <1>9, <1>10, <1>11, <1>12

LEMMA StutterIInv == IInv /\ UNCHANGED vars => IInv'
  BY DEF IInv, TypeOK, LockDiscipline, NoStaleChunk, PauseSilencesDevice, EndFlagIsFinal,
         SilentAfterStop, CallInProgress, ContextsOwned, DecoderCurrent, EndHasNoUrl,
         IdleIsStopped, vars, flags, locks, poolVars

LEMMA NextIInv == IInv /\ [Next]_vars => IInv'
  BY PlayBodyIInv, MainIInv, DecodeIInv, PlayIInv, StutterIInv
  DEF Next, MainCall, MainStep, DecodeStep, PlayStep

LEMMA Inductive == Spec => []IInv
  BY InitIInv, NextIInv, PTL DEF Spec

-----------------------------------------------------------------------------
\* Every variable keeps its type, and the pool its capacity.
THEOREM TypeCorrect == Spec => []TypeOK
  BY Inductive, PTL DEF IInv

\* Each thread owns the mutex of the section it is in, whoever else runs.
THEOREM SectionsAreLocked == Spec => []LockDiscipline
  BY Inductive, PTL DEF IInv

\* No chunk of an earlier track reaches the device after the next audioPlay.
THEOREM PlaysOnlyCurrentTrack == Spec => []NoStaleChunk
  BY Inductive, PTL DEF IInv

\* av_read_frame always has both contexts, whatever was freed or retried before.
THEOREM DecoderContextsLive == Spec => []ReadsLiveContext
<1>1. IInv => ReadsLiveContext
  BY DEF IInv, ContextsOwned, ReadsLiveContext
<1>2. QED
  BY Inductive, <1>1, PTL

\* Nothing of a track stays allocated once the decoder gives its mutex back.
THEOREM DecoderFreesContexts == Spec => []NoContextLeak
<1>1. IInv => NoContextLeak
  BY DEF IInv, LockDiscipline, ContextsOwned, NoContextLeak, Free, Dec
<1>2. QED
  BY Inductive, <1>1, PTL

\* A paused player writes nothing: what m_alsaMutex is for.
THEOREM PauseIsSilent == Spec => []PauseSilencesDevice
  BY Inductive, PTL DEF IInv

\* The play thread finishes a track only after its decoder has ended.
THEOREM EndFlagOfThisTrack == Spec => []EndFlagIsFinal
  BY Inductive, PTL DEF IInv

\* A stopped player stays silent until the next audioPlay.
THEOREM StopIsSilent == Spec => []SilentAfterStop
  BY Inductive, PTL DEF IInv

\* When the destructor goes on, both threads are gone and nothing leaks.
THEOREM DestructionIsQuiet == Spec => []DestroyedIsQuiet
<1>1. IInv => DestroyedIsQuiet
  <2> SUFFICES ASSUME IInv, mainPc = "destroyed"
               PROVE  decPc = "done" /\ playPc = "done" /\ ctx = {} /\ alsaM = Free
    BY DEF DestroyedIsQuiet
  <2>1. decPc = "done" /\ playPc = "done"
    BY DEF IInv, CallInProgress
  <2>2. ctx = {}
    BY <2>1 DEF IInv, ContextsOwned, DecSection
  <2>3. alsaM = Free
    BY <2>1 DEF IInv, TypeOK, LockDiscipline, Free, Main, Play
  <2>4. QED
    BY <2>1, <2>2, <2>3
<1>2. QED
  BY Inductive, <1>1, PTL

\* Nothing of an earlier track is left in the pool, the decoder, the player or
\* the end flag, however audioStop and audioPlay interleave with both threads.
THEOREM OneTrackAtATime == Spec => []OneTrackOnly
<1>1. NoStaleChunk /\ EndFlagIsFinal => OneTrackOnly
  BY DEF OneTrackOnly
<1>2. QED
  BY <1>1, PlaysOnlyCurrentTrack, EndFlagOfThisTrack, PTL

\* The decoder finds its contexts open whenever it reads, and every path out of
\* its section frees them.
THEOREM ContextsAreOwned == Spec => []ContextsLive
<1>1. ReadsLiveContext /\ NoContextLeak => ContextsLive
  BY DEF ContextsLive
<1>2. QED
  BY <1>1, DecoderContextsLive, DecoderFreesContexts, PTL

\* Every section is entered with its mutex, so audioPause and audioStop return
\* only when what they forbid has ended.
THEOREM PlayerIsSilenced == Spec => []Silences
<1>1. LockDiscipline /\ PauseSilencesDevice /\ SilentAfterStop => Silences
  BY DEF Silences
<1>2. QED
  BY <1>1, SectionsAreLocked, PauseIsSilent, StopIsSilent, PTL
=============================================================================
