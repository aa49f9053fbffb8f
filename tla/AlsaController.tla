--------------------------- MODULE AlsaController ---------------------------
(***************************************************************************)
(* The sound device of allPlay (AlsaController) under the calls that       *)
(* AudioPlayerImpl makes of it.  The play thread writes a chunk and        *)
(* audioPause stops the device, both under m_alsaMutex; audioResume, the   *)
(* decoder's alsaPrepare and audioStop's alsaClear do not take it: what    *)
(* keeps them away from a chunk that is being written are the flags and    *)
(* the two other mutexes.                                                  *)
(***************************************************************************)
EXTENDS Integers, Sequences

CONSTANTS Chunk,     \* frames of a chunk (m_chunkBytes)
          MaxCalls,  \* bound on the calls of the API
          MaxFaults  \* bound on underruns and suspends

ControllerBounds == /\ Chunk \in Nat \ {0} /\ {MaxCalls, MaxFaults} \subseteq Nat

VARIABLES can_pause,   \* m_alsaCanPause
          pcm,         \* state of the device
          c,           \* frames of the chunk that are still to write, 0: none is written
          p,           \* how far the pointer into it is
          given,       \* history: the frames of the chunk that the device took
          status, pauseFlag, stopFlag,   \* of the player
          dec,         \* the decoder: "none" to do, a track is "due", or it is "fed"
          late,        \* history: the last resume found the device running already
          api,         \* "idle", or the call that is between its flag and the device
          calls, faults
device == <<pcm, c, p, given>>
flags  == <<status, pauseFlag, stopFlag, dec, late>>
bounds == <<calls, faults>>
vars   == <<can_pause, device, flags, api, bounds>>

Writing == c > 0

\* A device that could be opened and took its parameters.
Init == /\ can_pause \in BOOLEAN
        /\ pcm = "prepared" /\ c = 0 /\ p = 0 /\ given = <<>>
        /\ status = "IDLE" /\ pauseFlag = FALSE /\ stopFlag = FALSE /\ dec = "none" /\ late = FALSE
        /\ api = "idle" /\ calls = 0 /\ faults = 0

-----------------------------------------------------------------------------
(* The play thread.                                                         *)

\* pushStream and the first lines of writeStream: a chunk that is shorter than
\* m_chunkBytes is filled up with silence, so that a chunk is always a whole one.
\* Mutant: the chunk goes to a player that was paused after it was popped.
PushStream_Paused ==
  /\ dec = "fed" /\ ~Writing /\ ~stopFlag /\ pcm # "closed"
  /\ c' = Chunk /\ p' = 0 /\ given' = <<>>
  /\ UNCHANGED <<can_pause, pcm, flags, api, bounds>>
PushStream ==
  /\ dec = "fed" /\ ~Writing /\ ~pauseFlag /\ ~stopFlag /\ pcm # "closed"
  /\ c' = Chunk /\ p' = 0 /\ given' = <<>>
  /\ UNCHANGED <<can_pause, pcm, flags, api, bounds>>

Frames(n) == [i \in 1 .. n |-> p + i]

\* snd_pcm_writei took n frames.  A paused device may have room for some.
\* Mutant: after a part the write goes on with the frames it had begun with.
Takes_Again(n) ==
  /\ Writing /\ pcm \in {"prepared", "running", "paused"}
  /\ given' = given \o Frames(n) /\ c' = c - n
  /\ pcm' = IF pcm = "prepared" THEN "running" ELSE pcm
  /\ UNCHANGED <<can_pause, p, flags, api, bounds>>
Takes(n) ==
  /\ Writing /\ pcm \in {"prepared", "running", "paused"}
  /\ given' = given \o Frames(n) /\ c' = c - n /\ p' = p + n
  /\ pcm' = IF pcm = "prepared" THEN "running" ELSE pcm
  /\ UNCHANGED <<can_pause, flags, api, bounds>>

\* -EPIPE: snd_pcm_prepare, and snd_pcm_recover, which has nothing left to repair
\* and returns 0, so that the chunk goes on where it was.
Recovers ==
  /\ Writing /\ pcm = "xrun" /\ pcm' = "prepared"
  /\ UNCHANGED <<can_pause, c, p, given, flags, api, bounds>>

\* -ESTRPIPE: snd_pcm_resume until it is no longer -EAGAIN, or else prepare.
Wakes ==
  /\ Writing /\ pcm = "suspended" /\ pcm' \in {"running", "prepared"}
  /\ UNCHANGED <<can_pause, c, p, given, flags, api, bounds>>

\* Any other error: the rest of the chunk is lost.
GivesUp ==
  /\ Writing /\ pcm = "setup" /\ c' = 0
  /\ UNCHANGED <<can_pause, pcm, p, given, flags, api, bounds>>

Write == (\E n \in 1 .. c : Takes(n)) \/ Recovers \/ Wakes \/ GivesUp

-----------------------------------------------------------------------------
(* The decoder, and the device by itself.                                   *)

\* snd_pcm_prepare is refused by a device that runs.
Prepared == IF pcm \in {"running", "closed"} THEN pcm ELSE "prepared"

\* decodeFunc prepares the device before it opens the track, be it one that was
\* stopped before the decoder woke up for it.
AlsaPrepare == /\ dec = "due" /\ dec' = "fed" /\ pcm' = Prepared
               /\ UNCHANGED <<can_pause, c, p, given, status, pauseFlag, stopFlag, late, api, bounds>>

Fault == /\ pcm = "running" /\ faults < MaxFaults /\ faults' = faults + 1
         /\ pcm' \in {"xrun", "suspended"}
         /\ UNCHANGED <<can_pause, c, p, given, flags, api, calls>>

-----------------------------------------------------------------------------
(* The API, of one caller.                                                  *)

Calls == api = "idle" /\ pcm # "closed" /\ calls < MaxCalls /\ calls' = calls + 1

Pauses == IF ~can_pause THEN "setup" ELSE IF pcm = "running" THEN "paused" ELSE pcm

\* audioPause: m_pauseFlag stays set when the device refuses, and then the status
\* stays as well.  A player that is paused already is not paused again.
\* Mutant: without m_alsaMutex.
Pause_Unlocked ==
  /\ Calls /\ status # "IDLE"
  /\ pauseFlag' = TRUE
  /\ \/ status = "STOP" /\ UNCHANGED <<pcm, status>>
     \/ /\ status # "STOP" /\ pcm' = Pauses
        /\ status' = IF can_pause /\ pcm # "running" THEN status ELSE "STOP"
  /\ UNCHANGED <<can_pause, c, p, given, stopFlag, dec, late, api, faults>>
Pause ==
  /\ Calls /\ status # "IDLE" /\ ~Writing
  /\ pauseFlag' = TRUE
  /\ \/ status = "STOP" /\ UNCHANGED <<pcm, status>>
     \/ /\ status # "STOP" /\ pcm' = Pauses
        /\ status' = IF can_pause /\ pcm # "running" THEN status ELSE "STOP"
  /\ UNCHANGED <<can_pause, c, p, given, stopFlag, dec, late, api, faults>>

\* audioResume: the flag first, and no mutex.
Resume ==
  /\ Calls /\ status # "IDLE"
  /\ pauseFlag' = FALSE /\ api' = "resume"
  /\ UNCHANGED <<can_pause, device, status, stopFlag, dec, late, faults>>

\* alsaResume: wake a suspended device up, then release the pause, or prepare.  A
\* writer that saw the flag first has the device running again: it refuses both,
\* and the status stays STOP.
AlsaResume ==
  /\ api = "resume" /\ api' = "idle"
  /\ \E awake \in IF pcm = "suspended" THEN {"running", "suspended"} ELSE {pcm} :
       /\ late' = (awake = "running")
       /\ IF can_pause
          THEN /\ pcm' = IF awake = "paused" THEN "running" ELSE awake
               /\ status' = IF awake = "paused" THEN "PLAY" ELSE status
          ELSE /\ pcm' = IF awake = "running" THEN awake ELSE "prepared"
               /\ status' = IF awake = "running" THEN status ELSE "PLAY"
  /\ UNCHANGED <<can_pause, c, p, given, pauseFlag, stopFlag, dec, bounds>>

\* audioStop: the flag, then, with m_playMutex, which the play thread has until
\* it saw the flag, and m_decodeMutex, alsaClear.
Stop ==
  /\ Calls /\ status # "IDLE"
  /\ stopFlag' = TRUE /\ api' = "stop"
  /\ UNCHANGED <<can_pause, device, status, pauseFlag, dec, late, faults>>

\* Mutant: alsaClear does not wait for the play thread.
AlsaClear_Early ==
  /\ api = "stop" /\ api' = "idle"
  /\ pcm' = "setup" /\ status' = "IDLE"
  /\ dec' = IF dec = "fed" THEN "none" ELSE dec
  /\ UNCHANGED <<can_pause, c, p, given, pauseFlag, stopFlag, late, bounds>>
AlsaClear ==
  /\ api = "stop" /\ ~Writing /\ api' = "idle"
  /\ pcm' = "setup" /\ status' = "IDLE"
  /\ dec' = IF dec = "fed" THEN "none" ELSE dec
  /\ UNCHANGED <<can_pause, c, p, given, pauseFlag, stopFlag, late, bounds>>

\* audioPlay of a player that is idle (else it stops it first).
Play ==
  /\ Calls /\ status = "IDLE"
  /\ status' = "PLAY" /\ pauseFlag' = FALSE /\ stopFlag' = FALSE /\ dec' = "due" /\ late' = FALSE
  /\ UNCHANGED <<can_pause, device, api, faults>>

\* The destructor: once both threads are joined, aslaAbort and alsaClose.
Close ==
  /\ Calls /\ ~Writing
  /\ pcm' = "closed" /\ stopFlag' = TRUE
  /\ UNCHANGED <<can_pause, c, p, given, status, pauseFlag, dec, late, api, faults>>

Api == Pause \/ Resume \/ AlsaResume \/ Stop \/ AlsaClear \/ Play \/ Close

Next == PushStream \/ Write \/ AlsaPrepare \/ Fault \/ Api

Spec == Init /\ [][Next]_vars
\* The device takes frames unless it is paused, and a call once made goes on.
Plays == pcm # "paused" /\ Write
FairSpec == Spec /\ WF_vars(Plays) /\ WF_vars(AlsaResume)

-----------------------------------------------------------------------------
TypeOK ==
  /\ {can_pause, pauseFlag, stopFlag, late} \subseteq BOOLEAN
  /\ pcm \in {"prepared", "running", "paused", "setup", "xrun", "suspended", "closed"}
  /\ c \in 0 .. Chunk /\ p \in 0 .. Chunk /\ given \in Seq(1 .. Chunk)
  /\ dec \in {"none", "due", "fed"}
  /\ status \in {"IDLE", "PLAY", "STOP"} /\ api \in {"idle", "resume", "stop"}
  /\ calls \in 0 .. MaxCalls /\ faults \in 0 .. MaxFaults

\* The device takes the frames of a chunk in their order and each of them once,
\* over partial writes, underruns and suspends.
GivenInOrder == \A i \in DOMAIN given : given[i] = i

\* A chunk is cut short only by a resume that has not prepared the device yet:
\* no other call drops the device while a chunk is being written.
ChunkIsWhole == [][Writing /\ c' = 0 => Len(given') = Chunk \/ api = "resume"]_vars

\* A player that is paused is not heard, whatever the decoder does to the device;
\* unless the resume before was overtaken by the writer: then the status is STOP
\* still, and audioPause leaves the device to run.
PausedIsQuiet == pauseFlag /\ ~late => pcm # "running"

\* A chunk is written to its end, although the device may be paused: the mutex is
\* given back.
WriteEnds == Writing ~> ~Writing
=============================================================================
