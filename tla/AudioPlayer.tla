----------------------------- MODULE AudioPlayer -----------------------------
(***************************************************************************)
(* The player of app/multiBox/src/allPlay: one caller of the IAudioPlayer  *)
(* API (allPlayer_main), the decode thread (decodeFunc) and the play       *)
(* thread (playFunc), which share the PcmBufPool, m_decodeMutex,           *)
(* m_playMutex, m_alsaMutex, two condition variables and a set of flags.   *)
(*                                                                         *)
(* Each value of a pc variable names a point of the code at which another  *)
(* thread can run.  A track is the number of the audioPlay call that       *)
(* started it, and so is a chunk in the pool; m_url is 0 when empty.       *)
(*                                                                         *)
(* An operator A_B is a mutant of A: the code with a plausible bug, which  *)
(* the run of the property it must break substitutes for A.                *)
(***************************************************************************)
EXTENDS Naturals, Sequences

CONSTANTS
  Cap,        \* BUFPOOL_MAX_SIZE
  RefillMin,  \* BUFFER_REFILL_MIN_SIZE
  MaxPlays,   \* bound: how many times the caller calls audioPlay
  Ops,        \* which API operations the caller uses
  AlsaOk      \* AlsaController::isAccessable(), fixed by the constructor

ASSUME ConstantsAssumption ==
  /\ Cap \in Nat \ {0}
  /\ RefillMin \in Nat /\ RefillMin < Cap
  /\ MaxPlays \in Nat
  /\ Ops \subseteq {"play", "stop", "pause", "resume", "destroy"}
  /\ AlsaOk \in BOOLEAN

VARIABLES
  url,                                    \* m_url
  status,                                 \* m_status
  stopFlag, pauseFlag, finishFlag, alive, \* m_stopFlag ... m_threadAlive
  decodeM, playM, alsaM,                  \* owner of each mutex
  pool, endFlag, dirty,                   \* PcmBufPool
  ctx,                                    \* allocated ffmpeg contexts
  session,                                \* number of tracks started
  decTrack, held,                         \* the decoder's track, the popped chunk
  op,                                     \* audioStop alone or inside audioPlay
  mainPc, decPc, playPc

flags == <<stopFlag, pauseFlag, finishFlag, alive>>
locks == <<decodeM, playM, alsaM>>
poolVars == <<pool, endFlag, dirty>>
vars == <<url, status, flags, locks, poolVars, ctx, session, decTrack, held,
          op, mainPc, decPc, playPc>>

Free == "free"
Main == "main"
Dec  == "decode"
Play == "play"

Contexts == {"format", "codec"}
Partial  == {{}, {"format"}, Contexts}   \* how far opening a track can get
Done     == {"IDLE", "FINISHED"}

Init ==
  /\ url = 0 /\ status = "IDLE"
  /\ stopFlag = FALSE /\ pauseFlag = FALSE /\ finishFlag = FALSE /\ alive = TRUE
  /\ decodeM = Free /\ playM = Free /\ alsaM = Free
  /\ pool = <<>> /\ endFlag = FALSE /\ dirty = FALSE
  /\ ctx = {} /\ session = 0 /\ decTrack = 0 /\ held = 0 /\ op = "stop"
  /\ mainPc = "idle" /\ decPc = "top" /\ playPc = "top"

-----------------------------------------------------------------------------
(* PcmBufPool: each operation is one critical section of m_dataLock.        *)

PoolClear == pool' = <<>> /\ endFlag' = FALSE /\ dirty' = FALSE

PoolPush_OffByOne(chunk) ==
  /\ Len(pool) <= Cap
  /\ pool' = Append(pool, chunk) /\ dirty' = TRUE
  /\ UNCHANGED endFlag

PoolPush(chunk) ==
  /\ Len(pool) < Cap
  /\ pool' = Append(pool, chunk) /\ dirty' = TRUE
  /\ UNCHANGED endFlag

PoolPop ==
  /\ pool # <<>>
  /\ held' = Head(pool) /\ pool' = Tail(pool)
  /\ UNCHANGED <<endFlag, dirty>>

PoolSetEnd == endFlag' = TRUE /\ UNCHANGED <<pool, dirty>>

\* handleHungryState reads size() without m_dataLock: while the decoder is
\* pushing, the read may return anything.
PoolRefilled == Len(pool) > RefillMin \/ decPc = "push"

-----------------------------------------------------------------------------
(* The caller.                                                              *)

mainLocal == <<op, mainPc>>
decLocal  == <<decTrack, decPc>>
playLocal == <<held, playPc>>

\* audioPlay enters through audioStop, which returns at once when idle.  (With
\* an offset, in state PLAY, audioPlay only reports and changes nothing.)
CallPlay ==
  /\ mainPc = "idle" /\ "play" \in Ops /\ session < MaxPlays
  /\ op' = "play"
  /\ mainPc' = IF status \in Done THEN "play.lockDecode" ELSE "stop.flag"
  /\ UNCHANGED <<url, status, flags, locks, poolVars, ctx, session, decLocal, playLocal>>

CallStop ==
  /\ mainPc = "idle" /\ "stop" \in Ops /\ status \notin Done
  /\ op' = "stop" /\ mainPc' = "stop.flag"
  /\ UNCHANGED <<url, status, flags, locks, poolVars, ctx, session, decLocal, playLocal>>

StopFlag ==
  /\ mainPc = "stop.flag"
  /\ stopFlag' = TRUE /\ mainPc' = "stop.clear"
  /\ UNCHANGED <<url, status, pauseFlag, finishFlag, alive, locks, poolVars, ctx,
                 session, op, decLocal, playLocal>>

StopClear_Skipped ==
  /\ mainPc = "stop.clear" /\ mainPc' = "stop.lockDecode"
  /\ UNCHANGED <<url, status, flags, locks, poolVars, ctx, session, op, decLocal, playLocal>>

\* The pool is cleared before the mutexes are taken.
StopClear ==
  /\ mainPc = "stop.clear"
  /\ PoolClear /\ mainPc' = "stop.lockDecode"
  /\ UNCHANGED <<url, status, flags, locks, ctx, session, op, decLocal, playLocal>>

LockDecode(from, to) ==
  /\ mainPc = from /\ decodeM = Free
  /\ decodeM' = Main /\ mainPc' = to
  /\ UNCHANGED <<url, status, flags, playM, alsaM, poolVars, ctx, session, op,
                 decLocal, playLocal>>

LockPlay(from, to) ==
  /\ mainPc = from /\ playM = Free
  /\ playM' = Main /\ mainPc' = to
  /\ UNCHANGED <<url, status, flags, decodeM, alsaM, poolVars, ctx, session, op,
                 decLocal, playLocal>>

StopLockDecode == LockDecode("stop.lockDecode", "stop.lockPlay")
StopLockPlay   == LockPlay("stop.lockPlay", "stop.body")
PlayLockDecode == LockDecode("play.lockDecode", "play.lockPlay")
PlayLockPlay   == LockPlay("play.lockPlay", "play.body")

StopBody ==
  /\ mainPc = "stop.body"
  /\ ctx' = {}
  /\ status' = IF AlsaOk THEN "IDLE" ELSE status
  /\ playM' = Free /\ mainPc' = "stop.unlock"
  /\ UNCHANGED <<url, flags, decodeM, alsaM, poolVars, session, op, decLocal, playLocal>>

UnlockDecode(from, to) ==
  /\ mainPc = from
  /\ decodeM' = Free /\ mainPc' = to
  /\ UNCHANGED <<url, status, flags, playM, alsaM, poolVars, ctx, session, op,
                 decLocal, playLocal>>

StopUnlock == UnlockDecode("stop.unlock", IF op = "play" THEN "play.lockDecode" ELSE "idle")
PlayUnlock == UnlockDecode("play.unlock", "idle")

\* pthread_cond_signal: a waiting thread must then take the mutex again.
Signalled(pc) == IF pc = "wait" THEN "wake" ELSE pc

PlayBody_KeepsPool ==
  /\ mainPc = "play.body"
  /\ endFlag' = FALSE
  /\ pauseFlag' = FALSE /\ finishFlag' = FALSE /\ stopFlag' = FALSE
  /\ session' = session + 1 /\ url' = session + 1
  /\ status' = "PLAY"
  /\ playPc' = Signalled(playPc) /\ decPc' = Signalled(decPc)
  /\ playM' = Free /\ mainPc' = "play.unlock"
  /\ UNCHANGED <<alive, decodeM, alsaM, pool, dirty, ctx, op, decTrack, held>>

PlayBody ==
  /\ mainPc = "play.body"
  /\ PoolClear
  /\ pauseFlag' = FALSE /\ finishFlag' = FALSE /\ stopFlag' = FALSE
  /\ session' = session + 1 /\ url' = session + 1
  /\ status' = "PLAY"
  /\ playPc' = Signalled(playPc) /\ decPc' = Signalled(decPc)
  /\ playM' = Free /\ mainPc' = "play.unlock"
  /\ UNCHANGED <<alive, decodeM, alsaM, ctx, op, decTrack, held>>

\* audioPause holds m_alsaMutex throughout and leaves pauseFlag set even when
\* the device refuses (PauseAlsa's second outcome).
CallPause ==
  /\ mainPc = "idle" /\ "pause" \in Ops /\ alsaM = Free
  /\ status \notin Done /\ AlsaOk
  /\ alsaM' = Main /\ pauseFlag' = TRUE /\ mainPc' = "pause.alsa"
  /\ UNCHANGED <<url, status, stopFlag, finishFlag, alive, decodeM, playM, poolVars,
                 ctx, session, op, decLocal, playLocal>>

PauseAlsa_NoUnlockOnFailure ==
  /\ mainPc = "pause.alsa" /\ mainPc' = "idle"
  /\ \/ status' = "STOP" /\ alsaM' = Free
     \/ UNCHANGED <<status, alsaM>>
  /\ UNCHANGED <<url, flags, decodeM, playM, poolVars, ctx, session, op, decLocal, playLocal>>

PauseAlsa ==
  /\ mainPc = "pause.alsa"
  /\ status' \in {"STOP", status}
  /\ alsaM' = Free /\ mainPc' = "idle"
  /\ UNCHANGED <<url, flags, decodeM, playM, poolVars, ctx, session, op, decLocal, playLocal>>

\* audioResume takes no mutex.
CallResume ==
  /\ mainPc = "idle" /\ "resume" \in Ops
  /\ status \notin Done /\ AlsaOk
  /\ pauseFlag' = FALSE /\ mainPc' = "resume.alsa"
  /\ UNCHANGED <<url, status, stopFlag, finishFlag, alive, locks, poolVars, ctx,
                 session, op, decLocal, playLocal>>

ResumeAlsa ==
  /\ mainPc = "resume.alsa"
  /\ status' \in {"PLAY", status} /\ mainPc' = "idle"
  /\ UNCHANGED <<url, flags, locks, poolVars, ctx, session, op, decLocal, playLocal>>

\* ~AudioPlayerImpl: flags, two signals with no mutex held, two joins.
CallDestroy ==
  /\ mainPc = "idle" /\ "destroy" \in Ops
  /\ alive' = FALSE /\ mainPc' = "destroy.flag"
  /\ UNCHANGED <<url, status, stopFlag, pauseFlag, finishFlag, locks, poolVars, ctx,
                 session, op, decLocal, playLocal>>

DestroyFlag ==
  /\ mainPc = "destroy.flag"
  /\ stopFlag' = TRUE /\ mainPc' = "destroy.signalPlay"
  /\ UNCHANGED <<url, status, pauseFlag, finishFlag, alive, locks, poolVars, ctx,
                 session, op, decLocal, playLocal>>

DestroySignalPlay ==
  /\ mainPc = "destroy.signalPlay"
  /\ playPc' = Signalled(playPc) /\ mainPc' = "destroy.signalDecode"
  /\ UNCHANGED <<url, status, flags, locks, poolVars, ctx, session, op, decLocal, held>>

DestroySignalDecode ==
  /\ mainPc = "destroy.signalDecode"
  /\ decPc' = Signalled(decPc) /\ mainPc' = "destroy.joinPlay"
  /\ UNCHANGED <<url, status, flags, locks, poolVars, ctx, session, op, decTrack, playLocal>>

DestroyJoin_PlayOnly ==
  /\ mainPc = "destroy.joinPlay" /\ playPc = "done" /\ mainPc' = "destroyed"
  /\ UNCHANGED <<url, status, flags, locks, poolVars, ctx, session, op, decLocal, playLocal>>

DestroyJoin ==
  /\ \/ mainPc = "destroy.joinPlay" /\ playPc = "done" /\ mainPc' = "destroy.joinDecode"
     \/ mainPc = "destroy.joinDecode" /\ decPc = "done" /\ mainPc' = "destroyed"
  /\ UNCHANGED <<url, status, flags, locks, poolVars, ctx, session, op, decLocal, playLocal>>

MainCall == CallPlay \/ CallStop \/ CallPause \/ CallResume \/ CallDestroy

MainStep ==
  \/ StopFlag \/ StopClear \/ StopLockDecode \/ StopLockPlay \/ StopBody \/ StopUnlock
  \/ PlayLockDecode \/ PlayLockPlay \/ PlayBody \/ PlayUnlock
  \/ PauseAlsa \/ ResumeAlsa
  \/ DestroyFlag \/ DestroySignalPlay \/ DestroySignalDecode \/ DestroyJoin

-----------------------------------------------------------------------------
(* The decode thread.                                                       *)

exceptDecode == <<status, flags, playM, alsaM, session, playLocal, mainLocal>>

DecTop ==
  /\ decPc = "top" /\ decPc' = IF alive THEN "lock" ELSE "done"
  /\ UNCHANGED <<exceptDecode, url, decodeM, poolVars, ctx, decTrack>>

\* With the mutex: wait (which gives it back) while m_url is empty.  Woken up
\* after m_threadAlive is reset, the thread returns and keeps the mutex.
DecEnter ==
  /\ decPc \in {"lock", "wake"} /\ decodeM = Free
  /\ IF decPc = "wake" /\ ~alive THEN decPc' = "done" /\ decodeM' = Dec
     ELSE IF url = 0 THEN decPc' = "wait" /\ UNCHANGED decodeM
     ELSE decPc' = "open" /\ decodeM' = Dec
  /\ UNCHANGED <<exceptDecode, url, poolVars, ctx, decTrack>>

DecSpuriousWake ==
  /\ decPc = "wait" /\ decPc' = "wake"
  /\ UNCHANGED <<exceptDecode, url, decodeM, poolVars, ctx, decTrack>>

\* Open, probe, find the codec and seek, in up to three attempts.  The play
\* thread may have emptied m_url since the wait; opening "" fails.
DecOpen ==
  /\ decPc = "open"
  /\ decTrack' = url
  /\ \/ url # 0 /\ ctx' = Contexts /\ decPc' = "loop"
     \/ ctx' \in Partial /\ decPc' = "free"
  /\ UNCHANGED <<exceptDecode, url, decodeM, poolVars>>

DecLoop ==
  /\ decPc = "loop"
  /\ \/ stopFlag /\ decPc' = "free"
     \/ ~stopFlag /\ ~pauseFlag /\ decPc' = "read"
  /\ UNCHANGED <<exceptDecode, url, decodeM, poolVars, ctx, decTrack>>

\* av_read_frame: nothing to push yet, a full chunk, the end of the stream
\* (near the end of the track, or too early), or errors past RETRY_INTERVAL.
DecRead ==
  /\ decPc = "read"
  /\ decPc' \in {"loop", "push", "free", "retryEof", "retryError"}
  /\ UNCHANGED <<exceptDecode, url, decodeM, poolVars, ctx, decTrack>>

DecPush ==
  /\ decPc = "push" /\ PoolPush(decTrack) /\ decPc' = "loop"
  /\ UNCHANGED <<exceptDecode, url, decodeM, ctx, decTrack>>

\* retryDecode frees both contexts and opens the track again, if there still is one.
RetryDecode(ok) ==
  /\ ok => url # 0
  /\ ctx' = IF ok THEN Contexts ELSE {}

DecRetryEof ==
  /\ decPc = "retryEof"
  /\ \E ok \in BOOLEAN : RetryDecode(ok) /\ decPc' = IF ok THEN "loop" ELSE "free"
  /\ UNCHANGED <<exceptDecode, url, decodeM, poolVars, decTrack>>

DecRetryError_Once ==
  /\ decPc = "retryError" /\ decPc' = "loop"
  /\ \/ stopFlag /\ UNCHANGED ctx
     \/ ~stopFlag /\ \E ok \in BOOLEAN : RetryDecode(ok)
  /\ UNCHANGED <<exceptDecode, url, decodeM, poolVars, decTrack>>

DecRetryError ==
  /\ decPc = "retryError"
  /\ \/ stopFlag /\ decPc' = "loop" /\ UNCHANGED ctx
     \/ /\ ~stopFlag
        /\ \E ok \in BOOLEAN : RetryDecode(ok) /\ decPc' = IF ok THEN "loop" ELSE decPc
  /\ UNCHANGED <<exceptDecode, url, decodeM, poolVars, decTrack>>

DecFree_Leaks ==
  /\ decPc = "free"
  /\ url' = 0 /\ ctx' = ctx \ {"codec"} /\ decPc' = "setEnd"
  /\ UNCHANGED <<exceptDecode, decodeM, poolVars, decTrack>>

DecFree_KeepsUrl ==
  /\ decPc = "free"
  /\ ctx' = {} /\ decPc' = "setEnd"
  /\ UNCHANGED <<exceptDecode, url, decodeM, poolVars, decTrack>>

DecFree ==
  /\ decPc = "free"
  /\ url' = 0 /\ ctx' = {} /\ decPc' = "setEnd"
  /\ UNCHANGED <<exceptDecode, decodeM, poolVars, decTrack>>

DecSetEnd ==
  /\ decPc = "setEnd" /\ PoolSetEnd
  /\ decodeM' = Free /\ decPc' = "top"
  /\ UNCHANGED <<exceptDecode, url, ctx, decTrack>>

DecodeStep ==
  \/ DecTop \/ DecEnter \/ DecOpen \/ DecLoop \/ DecRead \/ DecPush
  \/ DecRetryEof \/ DecRetryError \/ DecFree \/ DecSetEnd

-----------------------------------------------------------------------------
(* The play thread.                                                         *)

exceptPlay == <<stopFlag, pauseFlag, alive, decodeM, ctx, session, decLocal, mainLocal>>

PlayTop ==
  /\ playPc = "top" /\ playPc' = IF alive THEN "lock" ELSE "done"
  /\ UNCHANGED <<exceptPlay, url, status, finishFlag, playM, alsaM, poolVars, held>>

PlayEnter ==
  /\ playPc \in {"lock", "wake"} /\ playM = Free
  /\ IF playPc = "wake" /\ ~alive THEN playPc' = "done" /\ playM' = Play
     ELSE IF url = 0 THEN playPc' = "wait" /\ UNCHANGED playM
     ELSE playPc' = "loop" /\ playM' = Play
  /\ UNCHANGED <<exceptPlay, url, status, finishFlag, alsaM, poolVars, held>>

PlaySpuriousWake ==
  /\ playPc = "wait" /\ playPc' = "wake"
  /\ UNCHANGED <<exceptPlay, url, status, finishFlag, playM, alsaM, poolVars, held>>

PlayLoop_IgnoresStop ==
  /\ playPc = "loop"
  /\ \/ stopFlag /\ playPc' = "end"
     \/ ~pauseFlag /\ ~finishFlag /\ playPc' = "pop"
  /\ UNCHANGED <<exceptPlay, url, status, finishFlag, playM, alsaM, poolVars, held>>

PlayLoop ==
  /\ playPc = "loop"
  /\ \/ stopFlag /\ playPc' = "end"
     \/ ~stopFlag /\ ~pauseFlag /\ ~finishFlag /\ playPc' = "pop"
  /\ UNCHANGED <<exceptPlay, url, status, finishFlag, playM, alsaM, poolVars, held>>

PlayPop ==
  /\ playPc = "pop"
  /\ \/ PoolPop /\ playPc' = "push"
     \/ pool = <<>> /\ playPc' = "endCheck" /\ UNCHANGED <<poolVars, held>>
  /\ UNCHANGED <<exceptPlay, url, status, finishFlag, playM, alsaM>>

PlayPush_IgnoresPause ==
  /\ playPc = "push" /\ alsaM = Free
  /\ IF stopFlag
     THEN playPc' = "loop" /\ held' = 0 /\ UNCHANGED alsaM
     ELSE playPc' = "write" /\ alsaM' = Play /\ UNCHANGED held
  /\ UNCHANGED <<exceptPlay, url, status, finishFlag, playM, poolVars>>

\* pushStream: under m_alsaMutex, drop the chunk if paused or stopped, else
\* write it to the device (PlayWrite).
PlayPush ==
  /\ playPc = "push" /\ alsaM = Free
  /\ IF pauseFlag \/ stopFlag
     THEN playPc' = "loop" /\ held' = 0 /\ UNCHANGED alsaM
     ELSE playPc' = "write" /\ alsaM' = Play /\ UNCHANGED held
  /\ UNCHANGED <<exceptPlay, url, status, finishFlag, playM, poolVars>>

PlayWrite ==
  /\ playPc = "write"
  /\ alsaM' = Free /\ held' = 0 /\ playPc' = "loop"
  /\ UNCHANGED <<exceptPlay, url, status, finishFlag, playM, poolVars>>

PlayEndCheck ==
  /\ playPc = "endCheck"
  /\ playPc' = IF endFlag THEN "finish" ELSE IF dirty THEN "hungry" ELSE "loop"
  /\ UNCHANGED <<exceptPlay, url, status, finishFlag, playM, alsaM, poolVars, held>>

PlayHungry_NoRefill ==
  /\ playPc = "hungry"
  /\ stopFlag \/ endFlag
  /\ playPc' = "loop"
  /\ UNCHANGED <<exceptPlay, url, status, finishFlag, playM, alsaM, poolVars, held>>

PlayHungry ==
  /\ playPc = "hungry"
  /\ stopFlag \/ endFlag \/ PoolRefilled
  /\ playPc' = "loop"
  /\ UNCHANGED <<exceptPlay, url, status, finishFlag, playM, alsaM, poolVars, held>>

PlayFinish ==
  /\ playPc = "finish"
  /\ status' = "FINISHED" /\ finishFlag' = TRUE /\ playPc' = "endReport"
  /\ UNCHANGED <<exceptPlay, url, playM, alsaM, poolVars, held>>

PlayEnd ==
  /\ playPc \in {"end", "endReport"}
  /\ url' = 0 /\ playM' = Free
  /\ playPc' = IF playPc = "end" THEN "top" ELSE "exit"
  /\ UNCHANGED <<exceptPlay, status, finishFlag, alsaM, poolVars, held>>

\* executePlaybackFinished ends the process.
PlayExit ==
  /\ playPc = "exit" /\ playPc' = "exited"
  /\ UNCHANGED <<exceptPlay, url, status, finishFlag, playM, alsaM, poolVars, held>>

PlayStep ==
  \/ PlayTop \/ PlayEnter \/ PlayLoop \/ PlayPop \/ PlayPush \/ PlayWrite
  \/ PlayEndCheck \/ PlayHungry \/ PlayFinish \/ PlayEnd \/ PlayExit

-----------------------------------------------------------------------------
Exited == playPc = "exited"

RunMain   == ~Exited /\ MainStep
RunDecode == ~Exited /\ DecodeStep
RunPlay   == ~Exited /\ PlayStep

Next ==
  /\ ~Exited
  /\ MainCall \/ MainStep \/ DecodeStep \/ PlayStep \/ DecSpuriousWake \/ PlaySpuriousWake

Spec == Init /\ [][Next]_vars

\* A call once made goes on and each thread is scheduled; the caller need not
\* call, and no spurious wakeup is owed.
FairSpec == Spec /\ WF_vars(RunMain) /\ WF_vars(RunDecode) /\ WF_vars(RunPlay)

-----------------------------------------------------------------------------
MainPcs == {"idle", "stop.flag", "stop.clear", "stop.lockDecode", "stop.lockPlay",
            "stop.body", "stop.unlock", "play.lockDecode", "play.lockPlay", "play.body",
            "play.unlock", "pause.alsa", "resume.alsa", "destroy.flag",
            "destroy.signalPlay", "destroy.signalDecode", "destroy.joinPlay",
            "destroy.joinDecode", "destroyed"}
DecSection  == {"open", "loop", "read", "push", "retryEof", "retryError", "free", "setEnd"}
DecPcs      == DecSection \cup {"top", "lock", "wait", "wake", "done"}
PlaySection == {"loop", "pop", "push", "write", "endCheck", "hungry", "finish",
                "end", "endReport"}
PlayPcs     == PlaySection \cup {"top", "lock", "wait", "wake", "done", "exit", "exited"}

TypeOK ==
  /\ url \in {0, session} /\ session \in 0..MaxPlays
  /\ status \in {"IDLE", "PLAY", "STOP", "FINISHED"}
  /\ stopFlag \in BOOLEAN /\ pauseFlag \in BOOLEAN /\ finishFlag \in BOOLEAN
  /\ alive \in BOOLEAN /\ endFlag \in BOOLEAN /\ dirty \in BOOLEAN
  /\ decodeM \in {Free, Main, Dec} /\ playM \in {Free, Main, Play}
  /\ alsaM \in {Free, Main, Play}
  /\ pool \in Seq(1..MaxPlays) /\ Len(pool) <= Cap
  /\ ctx \in Partial
  /\ decTrack \in 0..MaxPlays /\ held \in 0..MaxPlays
  /\ op \in {"play", "stop"}
  /\ mainPc \in MainPcs /\ decPc \in DecPcs /\ playPc \in PlayPcs

\* Whoever is inside a section owns its mutex, so that audioStop and audioPlay
\* change the shared state only while both threads are out of theirs.
LockDiscipline ==
  /\ decPc \in DecSection => decodeM = Dec
  /\ playPc \in PlaySection => playM = Play
  /\ playPc = "write" <=> alsaM = Play
  /\ mainPc = "pause.alsa" <=> alsaM = Main
  /\ mainPc \in {"stop.lockPlay", "stop.body", "stop.unlock",
                 "play.lockPlay", "play.body", "play.unlock"} => decodeM = Main
  /\ mainPc \in {"stop.body", "play.body"} => playM = Main

\* No sound of an earlier track: the pool, the decoder and the play thread only
\* ever hold chunks of the track of the last audioPlay, although audioStop clears
\* the pool before the decoder has stopped pushing into it.
NoStaleChunk ==
  /\ \A i \in 1..Len(pool) : pool[i] = session
  /\ playPc \in {"push", "write"} => held = session
  /\ decPc \in {"loop", "read", "push"} => decTrack = session

\* The decoder never reads through freed or unopened contexts: not after
\* audioStop's frees and not after a retryDecode that failed.
ReadsLiveContext == decPc = "read" => ctx = Contexts

\* Every way out of decodeFunc's section, each error path included, frees the
\* contexts before the mutex is given back.
NoContextLeak == decodeM = Free => ctx = {}

\* Once audioPause has set m_pauseFlag, no chunk is being written.
PauseSilencesDevice == playPc = "write" => ~pauseFlag

\* PcmBufPool's end flag is never seen from an earlier track: while it is set,
\* and when the play thread acts on it, the decoder of this track is done.
EndFlagIsFinal ==
  endFlag \/ playPc \in {"finish", "endReport"} \/ status = "FINISHED"
    => decPc \notin DecSection

\* After audioStop the player is silent until the next audioPlay, even when a
\* thread had not yet woken up for the stopped track.
SilentAfterStop ==
  status = "IDLE" =>
    /\ playPc \notin PlaySection \ {"loop", "end"}
    /\ decPc \notin {"read", "push", "retryEof", "retryError"}

\* The destructor destroys the mutexes and closes the device only after both
\* threads are gone, and leaves no ffmpeg context behind although it frees none.
DestroyedIsQuiet ==
  mainPc = "destroyed" => decPc = "done" /\ playPc = "done" /\ ctx = {} /\ alsaM = Free

\* audioStop and audioPlay return: the decoder leaves a full pool, a paused
\* loop and a retry loop, the play thread leaves the hungry wait.
CallsReturn == mainPc \notin {"idle", "destroyed"} ~> (mainPc = "idle" \/ Exited)

\* pushPcmChunk's unbounded loop is left, unless playing is paused.
PushLoopEnds == decPc = "push" ~> (decPc # "push" \/ pauseFlag \/ Exited)

\* Status PLAY does not outlive the track's decoding: the track finishes.
TrackEnds == (status = "PLAY" /\ decPc = "setEnd") ~> (status # "PLAY" \/ Exited)

-----------------------------------------------------------------------------
(* What the runs check of the player. *)

\* Everything that is queued, held, decoded or flagged belongs to the track of
\* the last audioPlay.
OneTrackOnly == NoStaleChunk /\ EndFlagIsFinal

\* The ffmpeg contexts are there when they are read and gone with the section.
ContextsLive == ReadsLiveContext /\ NoContextLeak

\* The sections exclude each other as they should, and so a player that is paused
\* writes nothing to the device and one that is stopped does nothing.
Silences == LockDiscipline /\ PauseSilencesDevice /\ SilentAfterStop

\* Neither the caller nor the decoder waits for ever.
AllEnds == CallsReturn /\ PushLoopEnds
=============================================================================
