------------------------------- MODULE DllFifo -------------------------------
(***************************************************************************)
(* dll_fifo: nodes linked both ways.  An operation that walks the list     *)
(* (insert, remove, erase, get, query, clear) starts at front and stops at *)
(* NULL, it does not go by size.  Popping the last node sets only the end  *)
(* it was popped from to NULL: the other end keeps its address.            *)
(***************************************************************************)
EXTENDS Naturals, Sequences, FiniteSets

CONSTANTS Data,
          Nodes,       \* nodes that calloc may return
          NULL,
          WalkEmpty    \* is an empty list walked, too

\* What the constants may be.
NodeBounds == IsFiniteSet(Nodes) /\ NULL \notin Nodes /\ WalkEmpty \in BOOLEAN

VARIABLES next, prev, data,     \* of the nodes
          used,                 \* nodes that are allocated
          front, back, size,
          crashed               \* a freed node was looked at

vars == <<next, prev, data, used, front, back, size, crashed>>

Alloc(nd) == nd \in Nodes \ used /\ used' = used \cup {nd} /\ size' = size + 1

PushBack(nd, d) ==
    /\ Alloc(nd) /\ data' = [data EXCEPT ![nd] = d]
    /\ IF size = 0
       THEN /\ front' = nd /\ back' = nd
            /\ prev' = [prev EXCEPT ![nd] = NULL] /\ next' = [next EXCEPT ![nd] = NULL]
       ELSE /\ prev' = [prev EXCEPT ![nd] = back]
            /\ next' = [next EXCEPT ![nd] = NULL, ![back] = nd]
            /\ back' = nd /\ UNCHANGED front
    /\ UNCHANGED crashed

\* Mutant: the node that was first does not get to know the new one.
PushFront_OneWay(nd, d) ==
    /\ Alloc(nd) /\ data' = [data EXCEPT ![nd] = d]
    /\ prev' = [prev EXCEPT ![nd] = NULL]
    /\ next' = [next EXCEPT ![nd] = IF size = 0 THEN NULL ELSE front]
    /\ front' = nd /\ back' = IF size = 0 THEN nd ELSE back
    /\ UNCHANGED crashed

PushFront(nd, d) ==
    /\ Alloc(nd) /\ data' = [data EXCEPT ![nd] = d]
    /\ IF size = 0
       THEN /\ front' = nd /\ back' = nd
            /\ prev' = [prev EXCEPT ![nd] = NULL] /\ next' = [next EXCEPT ![nd] = NULL]
       ELSE /\ prev' = [prev EXCEPT ![nd] = NULL, ![front] = nd]
            /\ next' = [next EXCEPT ![nd] = front]
            /\ front' = nd /\ UNCHANGED back
    /\ UNCHANGED crashed

PopFront == /\ size > 0 /\ size' = size - 1 /\ used' = used \ {front}
            /\ IF size = 1 THEN front' = NULL /\ UNCHANGED prev
               ELSE front' = next[front] /\ prev' = [prev EXCEPT ![next[front]] = NULL]
            /\ UNCHANGED <<next, data, back, crashed>>

PopBack == /\ size > 0 /\ size' = size - 1 /\ used' = used \ {back}
           /\ IF size = 1 THEN back' = NULL /\ UNCHANGED next
              ELSE back' = prev[back] /\ next' = [next EXCEPT ![prev[back]] = NULL]
           /\ UNCHANGED <<prev, data, front, crashed>>

\* The nodes from front to NULL, at most as many as there are.
Walk == LET at[i \in 1 .. Cardinality(Nodes)] ==
              IF i = 1 THEN front ELSE IF at[i - 1] = NULL THEN NULL ELSE next[at[i - 1]]
        IN  [i \in {j \in DOMAIN at : at[j] # NULL} |-> at[i]]
MayWalk == ~crashed /\ (WalkEmpty \/ size > 0)
Sane == \A i \in DOMAIN Walk : Walk[i] \in used

\* dll_fifo_insert before the node at n; at 0 and from size on it pushes.
\* Mutant: the data goes to the node that is found, not to the new one.
Insert_Found(nd, d, n) ==
    /\ MayWalk /\ Sane /\ n > 0 /\ n < size /\ Alloc(nd)
    /\ LET idx == Walk[n + 1]
       IN  /\ data' = [data EXCEPT ![idx] = d]
           /\ next' = [next EXCEPT ![nd] = idx, ![prev[idx]] = nd]
           /\ prev' = [prev EXCEPT ![nd] = prev[idx], ![idx] = nd]
    /\ UNCHANGED <<front, back, crashed>>

Insert(nd, d, n) ==
    /\ MayWalk /\ Sane /\ n > 0 /\ n < size /\ Alloc(nd)
    /\ LET idx == Walk[n + 1]
       IN  /\ data' = [data EXCEPT ![nd] = d]
           /\ next' = [next EXCEPT ![nd] = idx, ![prev[idx]] = nd]
           /\ prev' = [prev EXCEPT ![nd] = prev[idx], ![idx] = nd]
    /\ UNCHANGED <<front, back, crashed>>

\* The end of dll_fifo_erase and of dll_fifo_remove.
\* Mutant: the end of the list is forgotten.
Unlink_Front(idx) ==
    /\ IF prev[idx] # NULL THEN next' = [next EXCEPT ![prev[idx]] = next[idx]] /\ UNCHANGED front
                           ELSE front' = next[idx] /\ UNCHANGED next
    /\ IF next[idx] # NULL THEN prev' = [prev EXCEPT ![next[idx]] = prev[idx]] ELSE UNCHANGED prev
    /\ used' = used \ {idx} /\ size' = size - 1
    /\ UNCHANGED <<data, back, crashed>>

Unlink(idx) ==
    /\ IF prev[idx] # NULL THEN next' = [next EXCEPT ![prev[idx]] = next[idx]] /\ UNCHANGED front
                           ELSE front' = next[idx] /\ UNCHANGED next
    /\ IF next[idx] # NULL THEN prev' = [prev EXCEPT ![next[idx]] = prev[idx]] /\ UNCHANGED back
                           ELSE back' = prev[idx] /\ UNCHANGED prev
    /\ used' = used \ {idx} /\ size' = size - 1
    /\ UNCHANGED <<data, crashed>>

Remove(n) == MayWalk /\ Sane /\ n < Len(Walk) /\ Unlink(Walk[n + 1])

Erase(d) == /\ MayWalk /\ Sane
            /\ \E i \in DOMAIN Walk : /\ data[Walk[i]] = d
                                      /\ \A j \in 1 .. i - 1 : data[Walk[j]] # d
                                      /\ Unlink(Walk[i])

Clear == /\ MayWalk /\ Sane
         /\ used' = used \ {Walk[i] : i \in DOMAIN Walk}
         /\ front' = NULL /\ back' = NULL /\ size' = 0
         /\ UNCHANGED <<next, prev, data, crashed>>

\* dll_fifo_get, dll_fifo_query, and any other walk over a list that ends in a
\* freed node.
Look == MayWalk /\ crashed' = ~Sane /\ UNCHANGED <<next, prev, data, used, front, back, size>>

Init == /\ next = [nd \in Nodes |-> NULL] /\ prev = [nd \in Nodes |-> NULL]
        /\ data \in {[nd \in Nodes |-> d] : d \in Data}
        /\ used = {} /\ front = NULL /\ back = NULL /\ size = 0 /\ crashed = FALSE

Next == \/ \E nd \in Nodes, d \in Data : PushBack(nd, d) \/ PushFront(nd, d)
        \/ \E nd \in Nodes, d \in Data, n \in 1 .. size : Insert(nd, d, n)
        \/ PopFront \/ PopBack \/ Clear \/ Look
        \/ \E n \in 0 .. size : Remove(n)
        \/ \E d \in Data : Erase(d)
Spec == Init /\ [][Next]_vars
-----------------------------------------------------------------------------
TypeOK == /\ {next[nd] : nd \in Nodes} \cup {prev[nd] : nd \in Nodes} \subseteq Nodes \cup {NULL}
          /\ \A nd \in Nodes : data[nd] \in Data
          /\ used \subseteq Nodes /\ size = Cardinality(used)
          /\ {front, back} \subseteq Nodes \cup {NULL} /\ ~crashed

\* Read backwards from back, a list that is not empty has the same nodes.
LinkedBothWays ==
    size > 0 =>
      /\ Len(Walk) = size /\ Walk[size] = back /\ prev[front] = NULL
      /\ \A i \in 2 .. size : prev[Walk[i]] = Walk[i - 1]

\* The list is a deque of its data.
Contents == IF size = 0 THEN <<>> ELSE [i \in DOMAIN Walk |-> data[Walk[i]]]
D == INSTANCE Deque WITH deque <- Contents
IsDeque == D!Spec
=============================================================================
