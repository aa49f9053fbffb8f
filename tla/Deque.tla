-------------------------------- MODULE Deque --------------------------------
(***************************************************************************)
(* What dll_fifo promises: a sequence to which elements are added at both  *)
(* ends and at a place, and from which they are taken at both ends, at a   *)
(* place, and by value, the first that has it.                             *)
(***************************************************************************)
EXTENDS Naturals, Sequences, SequencesExt

CONSTANT Data
VARIABLE deque

PushBack(d) == deque' = Append(deque, d)
PushFront(d) == deque' = <<d>> \o deque
PopFront == deque # <<>> /\ deque' = Tail(deque)
PopBack == deque # <<>> /\ deque' = Front(deque)
InsertBefore(d, n) == deque' = InsertAt(deque, n + 1, d)
RemoveNth(n) == deque' = RemoveAt(deque, n)
Erase(d) == /\ \E i \in 1 .. Len(deque) : deque[i] = d
            /\ deque' = RemoveFirst(deque, d)
Clear == deque' = <<>>

Init == deque = <<>>
Next == \/ \E d \in Data : PushBack(d) \/ PushFront(d) \/ Erase(d)
        \/ \E d \in Data, n \in 1 .. Len(deque) - 1 : InsertBefore(d, n)
        \/ \E n \in 1 .. Len(deque) : RemoveNth(n)
        \/ PopFront \/ PopBack \/ Clear
Spec == Init /\ [][Next]_deque
=============================================================================
