--------------------------------- MODULE Vad ---------------------------------
(***************************************************************************)
(* vad_op: whether somebody speaks, from one chunk of samples after the    *)
(* other.  It starts after so many loud chunks in a row and finishes after *)
(* so many silent ones; finished is for ever, until the caller resets the  *)
(* status.  A chunk is loud when at least a tenth of its units, and at     *)
(* least one, have more energy than the threshold.                         *)
(***************************************************************************)
EXTENDS Naturals

CONSTANTS MaxConfirm,   \* the confirm counts are at most this
          MaxUnits      \* units of a chunk

\* What the constants may be.
ConfirmBounds == MaxConfirm \in 1 .. 255 /\ MaxUnits \in Nat

VARIABLES startedConfirmCount, finishedConfirmCount,
          savedStatus, confirmCount,
          loud, silent     \* history: how many chunks in a row were loud, or silent

vars == <<startedConfirmCount, finishedConfirmCount, savedStatus, confirmCount, loud, silent>>

AtMost(n, m) == IF n < m THEN n ELSE m

\* isChunkSpeaking: overTimes of the units are over the threshold.
IsChunkSpeaking(unitCount, overTimes) ==
    overTimes >= (IF unitCount \div 10 > 0 THEN unitCount \div 10 ELSE 1)

\* Mutant: a chunk that says the opposite does not reset the count.
Idle_Sums(speaking) ==
    LET n == confirmCount + 1
    IN  IF speaking /\ n >= startedConfirmCount
        THEN savedStatus' = "STARTED" /\ confirmCount' = 0
        ELSE savedStatus' = "IDEL" /\ confirmCount' = IF speaking THEN n ELSE confirmCount

Idle(speaking) ==
    LET n == confirmCount + 1
    IN  IF speaking /\ n >= startedConfirmCount
        THEN savedStatus' = "STARTED" /\ confirmCount' = 0
        ELSE savedStatus' = "IDEL" /\ confirmCount' = IF speaking THEN n ELSE 0

\* The chunk after the start counts, but cannot finish.
\* Mutant: it does not count.
Started_Skips(speaking) == savedStatus' = "SPEAKING" /\ UNCHANGED confirmCount
Started(speaking) == /\ savedStatus' = "SPEAKING"
                     /\ confirmCount' = IF speaking THEN confirmCount ELSE confirmCount + 1

Speaking(speaking) ==
    LET n == confirmCount + 1
    IN  IF ~speaking /\ n >= finishedConfirmCount
        THEN savedStatus' = "FINISHED" /\ confirmCount' = 0
        ELSE savedStatus' = "SPEAKING" /\ confirmCount' = IF speaking THEN 0 ELSE n

\* get_vad_status for the next chunk.
GetVadStatus(speaking) ==
    /\ loud' = IF speaking THEN AtMost(loud + 1, MaxConfirm) ELSE 0
    /\ silent' = IF speaking THEN 0 ELSE AtMost(silent + 1, MaxConfirm + 1)
    /\ \/ savedStatus = "IDEL" /\ Idle(speaking)
       \/ savedStatus = "STARTED" /\ Started(speaking)
       \/ savedStatus = "SPEAKING" /\ Speaking(speaking)
       \/ savedStatus = "FINISHED" /\ UNCHANGED <<savedStatus, confirmCount>>
    /\ UNCHANGED <<startedConfirmCount, finishedConfirmCount>>

Init == /\ startedConfirmCount \in 0 .. MaxConfirm /\ finishedConfirmCount \in 0 .. MaxConfirm
        /\ savedStatus = "IDEL" /\ confirmCount = 0 /\ loud = 0 /\ silent = 0

Next == \E unitCount \in 1 .. MaxUnits : \E overTimes \in 0 .. unitCount :
           GetVadStatus(IsChunkSpeaking(unitCount, overTimes))
Spec == Init /\ [][Next]_vars
-----------------------------------------------------------------------------
TypeOK == /\ savedStatus \in {"IDEL", "STARTED", "SPEAKING", "FINISHED"}
          /\ confirmCount \in 0 .. MaxConfirm
          /\ loud \in 0 .. MaxConfirm /\ silent \in 0 .. MaxConfirm + 1

\* Speech starts with enough loud chunks in a row.
StartsLoud == savedStatus = "STARTED" => loud >= startedConfirmCount

\* Speech goes on until enough chunks in a row were silent, and no longer; the
\* chunk that follows the start is never the last one.
FinishesOnTime ==
    /\ [][savedStatus = "SPEAKING" /\ savedStatus' = "FINISHED"
            => silent' >= finishedConfirmCount]_vars
    /\ [](savedStatus = "SPEAKING" => silent < finishedConfirmCount \/ silent <= 1)
=============================================================================
