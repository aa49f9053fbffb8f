------------------------------ MODULE AlsaCtrl ------------------------------
(***************************************************************************)
(* alsa_ctrl: every call takes the one mutex, and write_stream keeps it    *)
(* until the whole chunk is in the device.  The flag that abort sets is    *)
(* looked at in the loop, but abort takes the mutex as well; a device that *)
(* is paused takes no more than its buffer holds, and the call that would  *)
(* resume it waits for the writer.                                         *)
(***************************************************************************)
EXTENDS Naturals

CONSTANTS Buffer,      \* frames the device holds
          Chunk,       \* frames of one call of write_stream
          MaxCalls     \* bound on the calls of both threads

ASSUME FrameAssumption == {Buffer, Chunk, MaxCalls} \subseteq Nat \ {0}

Controls == {"prepare", "pause", "resume", "abort", "clear", "close", "reset"}

VARIABLES can_pause,   \* what the hardware can
          pcm,         \* state of the device: "prepared", "running", "paused",
                       \* "setup" (after a drop), "xrun" or "closed"
          fill,        \* frames in it
          abort_flag,
          left,        \* frames that the writer, who has the mutex, has to write
          control,     \* the call that waits for the mutex, or "none"
          quiet,       \* history: pause was the last call that succeeded
          calls
vars == <<can_pause, pcm, fill, abort_flag, left, control, quiet, calls>>

Locked == left > 0

\* snd_pcm_hw_params_can_pause, and a device that plays what it has.
Plays == /\ pcm = "running"
         /\ IF fill = 0 THEN pcm' = "xrun" /\ UNCHANGED fill ELSE fill' = fill - 1 /\ UNCHANGED pcm
         /\ UNCHANGED <<can_pause, abort_flag, left, control, quiet, calls>>

\* alsa_ctrl_write_stream: an aborted or a closed one returns at once.
\* Mutant: an aborted stream is written to.
Write_Aborted == /\ ~Locked /\ calls < MaxCalls /\ calls' = calls + 1
                 /\ left' = IF pcm = "closed" THEN 0 ELSE Chunk
                 /\ UNCHANGED <<can_pause, pcm, fill, abort_flag, control, quiet>>
Write == /\ ~Locked /\ calls < MaxCalls /\ calls' = calls + 1
         /\ left' = IF abort_flag \/ pcm = "closed" THEN 0 ELSE Chunk
         /\ UNCHANGED <<can_pause, pcm, fill, abort_flag, control, quiet>>

\* snd_pcm_writei, which blocks while there is no room.
Writei == /\ Locked /\ pcm \in {"prepared", "running", "paused"} /\ fill < Buffer
          /\ fill' = fill + 1 /\ left' = left - 1
          /\ pcm' = IF pcm = "prepared" /\ (fill' = Buffer \/ left' = 0) THEN "running" ELSE pcm
          /\ UNCHANGED <<can_pause, abort_flag, control, quiet, calls>>

\* An underrun, or a device that was dropped: the call fails, and so does every
\* other until somebody calls prepare or resume.
\* Mutant: the writer prepares the device and goes on.
WriteFails_Recovers == /\ Locked /\ pcm \in {"xrun", "setup"}
                       /\ pcm' = "prepared"
                       /\ UNCHANGED <<can_pause, fill, abort_flag, left, control, quiet, calls>>
\* Mutant: the writer tries again.
WriteFails_Retries == /\ Locked /\ pcm \in {"xrun", "setup"} /\ UNCHANGED vars
WriteFails == /\ Locked /\ pcm \in {"xrun", "setup"}
              /\ left' = 0
              /\ UNCHANGED <<can_pause, pcm, fill, abort_flag, control, quiet, calls>>

\* The other calls, made by another thread, wait for the mutex.
Call(c) == /\ control = "none" /\ calls < MaxCalls /\ calls' = calls + 1
           /\ control' = c
           /\ UNCHANGED <<can_pause, pcm, fill, abort_flag, left, quiet>>

Has(c) == ~Locked /\ control = c /\ control' = "none" /\ UNCHANGED <<can_pause, left, calls>>

Dropped == pcm' = (IF pcm = "closed" THEN pcm ELSE "setup") /\ fill' = 0

Prepare == /\ Has("prepare") /\ abort_flag' = FALSE /\ quiet' = FALSE
           /\ IF pcm = "closed" THEN UNCHANGED <<pcm, fill>>
              ELSE pcm' = "prepared" /\ fill' = 0

\* Hardware that can pause does, when it runs; other hardware is dropped.
Pause == /\ Has("pause") /\ UNCHANGED abort_flag
         /\ quiet' = (quiet \/ (pcm # "closed" /\ (can_pause => pcm = "running")))
         /\ IF can_pause THEN /\ pcm' = IF pcm = "running" THEN "paused" ELSE pcm
                              /\ UNCHANGED fill
            ELSE Dropped

Resume == /\ Has("resume") /\ UNCHANGED abort_flag /\ quiet' = FALSE
          /\ IF can_pause THEN /\ pcm' = IF pcm = "paused" THEN "running" ELSE pcm
                               /\ UNCHANGED fill
             ELSE IF pcm = "closed" THEN UNCHANGED <<pcm, fill>>
             ELSE pcm' = "prepared" /\ fill' = 0

Abort == /\ Has("abort") /\ abort_flag' = TRUE /\ quiet' = FALSE /\ UNCHANGED <<pcm, fill>>

ClearIt == Has("clear") /\ UNCHANGED abort_flag /\ quiet' = FALSE /\ Dropped

Close == /\ Has("close") /\ UNCHANGED abort_flag /\ quiet' = FALSE
         /\ pcm' = "closed" /\ fill' = 0

\* alsa_ctrl_reset leaves the flag of an abort set.
Reset == /\ Has("reset") /\ UNCHANGED abort_flag /\ quiet' = FALSE
         /\ pcm' = "prepared" /\ fill' = 0

Init == /\ can_pause \in BOOLEAN
        /\ pcm = "prepared" /\ fill = 0 /\ abort_flag = FALSE
        /\ left = 0 /\ control = "none" /\ quiet = FALSE /\ calls = 0

Controlled == Prepare \/ Pause \/ Resume \/ Abort \/ ClearIt \/ Close \/ Reset
Next == \/ Plays \/ Write \/ Writei \/ WriteFails
        \/ \E c \in Controls : Call(c)
        \/ Controlled

Spec == Init /\ [][Next]_vars
\* The device plays, the writer goes on, and the mutex is fair.
FairSpec == Spec /\ WF_vars(Plays) /\ WF_vars(Writei) /\ WF_vars(WriteFails) /\ SF_vars(Controlled)
-----------------------------------------------------------------------------
TypeOK == /\ can_pause \in BOOLEAN /\ abort_flag \in BOOLEAN /\ quiet \in BOOLEAN
          /\ pcm \in {"prepared", "running", "paused", "setup", "xrun", "closed"}
          /\ fill \in 0 .. Buffer /\ left \in 0 .. Chunk /\ calls \in 0 .. MaxCalls
          /\ control \in Controls \cup {"none"}
          /\ (pcm = "paused" => can_pause) /\ (pcm \in {"setup", "closed"} => fill = 0)

\* An aborted stream takes no frame before it is prepared again.
AbortHolds == [][abort_flag => fill' <= fill]_vars

\* A stream whose pause succeeded is not heard until the next call.
PauseHolds == quiet => pcm # "running"

\* Every call gets the mutex, unless the writer fills a device that is paused:
\* then neither ends, for the resume waits for the writer.
CallsReturn == control # "none" ~> (control = "none" \/ (pcm = "paused" /\ Locked))

\* A pause and an abort hold until a call ends them.
ControlsHold == []PauseHolds /\ AbortHolds
=============================================================================
