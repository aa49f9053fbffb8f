----------------------------- MODULE BoundedFifo -----------------------------
(***************************************************************************)
(* What the queues of cppUtils promise their users, whatever the threads   *)
(* do: a FIFO of at most MaxCount elements, of which each is handed out,   *)
(* destroyed or forgotten once.  Elements are numbered as they are put in. *)
(***************************************************************************)
EXTENDS Naturals, Sequences, SequencesExt

CONSTANT MaxCount  \* capacity, at least 1

VARIABLES
  fifo,    \* oldest element first
  made,    \* number of elements put so far
  taken, destroyed, forgotten  \* the elements that left, by fate

fifoVars == <<fifo, made, taken, destroyed, forgotten>>

Init == fifo = <<>> /\ made = 0 /\ taken = {} /\ destroyed = {} /\ forgotten = {}

Put ==
  /\ Len(fifo) < MaxCount
  /\ made' = made + 1 /\ fifo' = Append(fifo, made + 1)
  /\ UNCHANGED <<taken, destroyed, forgotten>>

\* A full queue gives up its oldest element for a new one.
Overwrite ==
  /\ Len(fifo) = MaxCount
  /\ made' = made + 1 /\ fifo' = Append(Tail(fifo), made + 1)
  /\ destroyed' = destroyed \cup {Head(fifo)}
  /\ UNCHANGED <<taken, forgotten>>

Take ==
  /\ fifo # <<>>
  /\ fifo' = Tail(fifo) /\ taken' = taken \cup {Head(fifo)}
  /\ UNCHANGED <<made, destroyed, forgotten>>

Clear ==
  /\ fifo' = <<>> /\ forgotten' = forgotten \cup ToSet(fifo)
  /\ UNCHANGED <<made, taken, destroyed>>

Next == Put \/ Overwrite \/ Take \/ Clear

Spec == Init /\ [][Next]_fifoVars
=============================================================================
