-------------------------------- MODULE Autom --------------------------------
(***************************************************************************)
(* autom: a block of memory that grows with what is written to it and is   *)
(* read from its tail, cur_bytes before it.  Reading lowers cur_bytes,     *)
(* which is also where the next write goes: a write after a read overwrites *)
(* what was not read yet, unless everything was.  reset makes all of it    *)
(* unread again; breset also cuts the block, but neither pre_bytes nor the *)
(* tail that goes with it: until a write takes a new block, the next ones  *)
(* go by a size that is no longer there.                                   *)
(***************************************************************************)
EXTENDS Naturals, Sequences

CONSTANTS PreBytes, MaxWrite, MaxBytes   \* of create, of a write, of all writes

\* What the constants may be.
SizeBounds == {PreBytes, MaxWrite, MaxBytes} \subseteq Nat

Cut == 0                  \* a byte that went with the end of the block

VARIABLES pre_bytes,
          space,       \* bytes that head really has
          cur_bytes,
          tail,        \* minus head
          head,        \* the bytes, labelled in the order in which they were written
          written,
          moved,       \* tail still points into the block that breset gave back
          unread,      \* history: what a reader is owed
          mixed,       \* history: a write overwrote some of it
          stray        \* history: an address out of the block was used
vars == <<pre_bytes, space, cur_bytes, tail, head, written, moved, unread, mixed, stray>>

\* Mutant: the byte that ends the text is not counted.
Need_Less(bytes) == cur_bytes + bytes
Need(bytes) == cur_bytes + bytes + 1

Write(bytes) ==
    /\ written + bytes <= MaxBytes /\ written' = written + bytes
    /\ IF Need(bytes) > pre_bytes
       THEN pre_bytes' = Need(bytes) /\ space' = Need(bytes) /\ UNCHANGED stray
       ELSE stray' = (Need(bytes) > space) /\ UNCHANGED <<pre_bytes, space>>
    /\ LET new == [i \in 1 .. bytes |-> written + i]
       IN  /\ head' = SubSeq(head, 1, cur_bytes) \o new
           /\ unread' = unread \o new
    /\ mixed' = (cur_bytes > 0 /\ (mixed \/ cur_bytes < tail))
    /\ cur_bytes' = cur_bytes + bytes /\ tail' = cur_bytes' /\ moved' = FALSE

\* autom_read at tail - cur_bytes.
\* Mutant: the bytes are taken from the front of the block.
At_Front == 0
At == tail - cur_bytes

Read(bytes) == /\ cur_bytes >= bytes /\ cur_bytes' = cur_bytes - bytes
               /\ unread' = SubSeq(unread, bytes + 1, Len(unread))
               /\ stray' = (moved \/ At + bytes > space)
               /\ UNCHANGED <<pre_bytes, space, tail, head, written, moved, mixed>>

\* cur_bytes = tail - head, which is of two blocks when one has moved.
Rewind == /\ cur_bytes' = tail /\ unread' = SubSeq(head, 1, tail) /\ mixed' = FALSE
          /\ stray' = moved

Reset == Rewind /\ UNCHANGED <<pre_bytes, space, tail, head, written, moved>>

BReset(bytes) ==
    /\ Rewind
    /\ IF pre_bytes > bytes
       THEN /\ space' = bytes /\ moved' \in BOOLEAN
            /\ head' = [i \in 1 .. tail |-> IF i <= bytes THEN head[i] ELSE Cut]
       ELSE UNCHANGED <<space, head, moved>>
    /\ UNCHANGED <<pre_bytes, tail, written>>

Clear == /\ cur_bytes' = 0 /\ tail' = 0 /\ unread' = <<>> /\ head' = <<>>
         /\ stray' = (cur_bytes > space) /\ mixed' = FALSE /\ moved' = FALSE
         /\ UNCHANGED <<pre_bytes, space, written>>

Init == /\ pre_bytes = PreBytes /\ space = PreBytes /\ cur_bytes = 0 /\ tail = 0
        /\ head = <<>> /\ written = 0 /\ unread = <<>>
        /\ moved = FALSE /\ mixed = FALSE /\ stray = FALSE

Next == /\ ~stray
        /\ \/ \E bytes \in 1 .. MaxWrite : Write(bytes) \/ Read(bytes)
           \/ \E bytes \in 1 .. MaxBytes : BReset(bytes)
           \/ Reset \/ Clear
Spec == Init /\ [][Next]_vars
-----------------------------------------------------------------------------
TypeOK == /\ cur_bytes \in 0 .. tail /\ tail = Len(head)
          /\ {pre_bytes, space, written} \subseteq Nat
          /\ {moved, mixed, stray} \subseteq BOOLEAN

\* A reader sees what it is owed, in order, but for bytes that breset cut off,
\* unless a write came when some of it was read and some not.
ReadsInOrder == ~mixed => /\ Len(unread) = cur_bytes
                          /\ \A i \in 1 .. cur_bytes : head[At + i] \in {unread[i], Cut}

\* The bytes and the zero that ends them fit into the block, and nothing out of it
\* is used, but between a breset that cut it and the next write that takes a new one.
FitsTheBlock == \/ space < pre_bytes
                \/ ~stray /\ (tail < space \/ tail = 0)
=============================================================================
