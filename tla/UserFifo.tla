------------------------------- MODULE UserFifo -------------------------------
(***************************************************************************)
(* user_fifo: commands, each between a "^" and a newline, that writers put *)
(* into a named pipe (un_fifo_ops) without blocking, and the reader that   *)
(* takes as much as its buffer holds, handles the commands it finds in it  *)
(* one after the other and then reads again into the empty buffer.         *)
(*                                                                         *)
(* un_read and un_write (fd_op.h) return how much they moved and never an  *)
(* error; un_read goes on when errno is EINTR, be it from an earlier call. *)
(* A unit of the pipe is <<n, k>>: the k-th of the n-th command, 0 its "^" *)
(* and the last one its newline.  Commands that hold a "^" or a newline    *)
(* themselves are left out.                                                *)
(***************************************************************************)
EXTENDS Integers, SequencesExt

CONSTANTS Clients,    \* processes that write commands
          PipeSize,   \* units the pipe holds
          BufSize,    \* sizeof(buf) of user_fifo_read_proc, and the longest frame
          MaxSends,   \* bound on the commands
          MaxSignals, \* bound on the signals that interrupt a read
          MaxCrashes  \* bound on the restarts of the reader

FifoBounds == /\ {PipeSize, BufSize, MaxSends, MaxSignals, MaxCrashes} \subseteq Nat
              /\ BufSize >= 3 /\ PipeSize >= BufSize

VARIABLES pipe,      \* the units in the pipe
          opened,    \* the clients that have it open
          reader,    \* "down", in un_read ("read"), or looking for commands ("parse")
          buf,       \* what the reader has
          eintr,     \* errno of the reader is EINTR
          lens,      \* history: the length of each command that was written
          handled,   \* history: what the handlers were given
          torn,      \* history: the commands that the end of the buffer cut
          lost,      \* history: the commands that went with the reader or the pipe
          signals, crashes
history == <<lens, handled, torn, lost>>
vars == <<pipe, opened, reader, buf, eintr, history, signals, crashes>>

Frame(n, len) == [i \in 1 .. len + 2 |-> <<n, i - 1>>]
Begins(u) == u[2] = 0
Ends(u)   == u[2] = lens[u[1]] + 1
Commands(s) == {u[1] : u \in ToSet(s)}

Init == /\ pipe = <<>> /\ opened = {} /\ reader = "down" /\ buf = <<>> /\ eintr = FALSE
        /\ lens = <<>> /\ handled = <<>> /\ torn = {} /\ lost = {}
        /\ signals = 0 /\ crashes = 0

-----------------------------------------------------------------------------
(* The writers.                                                             *)

\* user_fifo_write_init: opened for both directions, so that it never waits.
Open(w) == /\ w \notin opened /\ opened' = opened \cup {w}
           /\ UNCHANGED <<pipe, reader, buf, eintr, history, signals, crashes>>

\* What is in a pipe that nobody has open any more is gone.
Abandoned(up, clients) ==
  IF up = "down" /\ clients = {} THEN pipe' = <<>> /\ lost' = lost \cup Commands(pipe)
                                 ELSE UNCHANGED <<pipe, lost>>

\* un_fifo_ops_destory.
CloseFifo(w) ==
  /\ w \in opened /\ opened' = opened \ {w}
  /\ Abandoned(reader, opened')
  /\ UNCHANGED <<reader, buf, eintr, lens, handled, torn, signals, crashes>>

\* user_fifo_write_fmt: the whole frame, or nothing when the pipe has no room for
\* it.  The writer cannot tell: it is told -3 either way.
\* Mutant: as much of it as there is room for.
Send_Part(w, len) ==
  /\ w \in opened /\ Len(lens) < MaxSends /\ Len(pipe) < PipeSize
  /\ LET all == pipe \o Frame(Len(lens) + 1, len)
     IN pipe' = IF Len(all) > PipeSize THEN SubSeq(all, 1, PipeSize) ELSE all
  /\ lens' = Append(lens, len)
  /\ UNCHANGED <<opened, reader, buf, eintr, handled, torn, lost, signals, crashes>>
Send(w, len) ==
  /\ w \in opened /\ Len(lens) < MaxSends /\ Len(pipe) + len + 2 <= PipeSize
  /\ pipe' = pipe \o Frame(Len(lens) + 1, len)
  /\ lens' = Append(lens, len)
  /\ UNCHANGED <<opened, reader, buf, eintr, handled, torn, lost, signals, crashes>>

-----------------------------------------------------------------------------
(* The reader.                                                              *)

\* user_fifo_read_init.
ReadInit == /\ reader = "down" /\ crashes < MaxCrashes + 1
            /\ reader' = "read" /\ buf' = <<>> /\ eintr' = FALSE
            /\ UNCHANGED <<pipe, opened, history, signals, crashes>>

\* Its process ends.
Crash == /\ reader # "down" /\ crashes < MaxCrashes
         /\ reader' = "down" /\ crashes' = crashes + 1
         /\ buf' = <<>>
         /\ IF opened = {} THEN pipe' = <<>> /\ lost' = lost \cup Commands(buf) \cup Commands(pipe)
                           ELSE UNCHANGED pipe /\ lost' = lost \cup Commands(buf)
         /\ UNCHANGED <<opened, eintr, lens, handled, torn, signals>>

\* read() is interrupted before there is anything to read.
Interrupted == /\ reader = "read" /\ pipe = <<>> /\ signals < MaxSignals
               /\ signals' = signals + 1 /\ eintr' = TRUE
               /\ UNCHANGED <<pipe, opened, reader, buf, history, crashes>>

\* un_read: what is there, as far as it fits.  With EINTR left in errno it does
\* not return before the buffer is full.
\* Mutant: it always fills the buffer.
Read_Full == /\ reader = "read" /\ pipe # <<>>
             /\ LET n == IF Len(pipe) < BufSize - Len(buf) THEN Len(pipe) ELSE BufSize - Len(buf)
                IN buf' = buf \o SubSeq(pipe, 1, n) /\ pipe' = SubSeq(pipe, n + 1, Len(pipe))
             /\ reader' = IF Len(buf') = BufSize THEN "parse" ELSE "read"
             /\ UNCHANGED <<opened, eintr, history, signals, crashes>>
Read == /\ reader = "read" /\ pipe # <<>>
        /\ LET n == IF Len(pipe) < BufSize - Len(buf) THEN Len(pipe) ELSE BufSize - Len(buf)
           IN buf' = buf \o SubSeq(pipe, 1, n) /\ pipe' = SubSeq(pipe, n + 1, Len(pipe))
        /\ reader' = IF eintr /\ Len(buf') < BufSize THEN "read" ELSE "parse"
        /\ UNCHANGED <<opened, eintr, history, signals, crashes>>

\* The next "^" and the newline after it.
Found(i, j) == /\ Begins(buf[i]) /\ \A k \in 1 .. i - 1 : ~Begins(buf[k])
               /\ Ends(buf[j]) /\ j > i /\ \A k \in i + 1 .. j - 1 : ~Ends(buf[k])

\* pArgs->handle or user_fifo_cmd_handle gets what is between them; a call of it
\* that fails leaves another errno behind.
\* Mutant: the search goes on where it was.
Handle_Again(i, j) ==
  /\ reader = "parse" /\ Found(i, j) /\ Len(handled) < MaxSends + 1
  /\ handled' = Append(handled, SubSeq(buf, i + 1, j - 1))
  /\ eintr' \in {eintr, FALSE}
  /\ UNCHANGED <<pipe, opened, reader, buf, lens, torn, lost, signals, crashes>>
Handle(i, j) ==
  /\ reader = "parse" /\ Found(i, j)
  /\ handled' = Append(handled, SubSeq(buf, i + 1, j - 1))
  /\ buf' = SubSeq(buf, j + 1, Len(buf))
  /\ eintr' \in {eintr, FALSE}
  /\ UNCHANGED <<pipe, opened, reader, lens, torn, lost, signals, crashes>>

Torn == {n \in Commands(buf) : ~(<<n, 0>> \in ToSet(buf) /\ <<n, lens[n] + 1>> \in ToSet(buf))}

\* No command is left in the buffer: the rest of it, the head of a command whose
\* tail is still in the pipe, is forgotten.
\* Mutant: after the first command.
ReadAgain_Early ==
  /\ reader = "parse"
  /\ reader' = "read" /\ buf' = <<>> /\ torn' = torn \cup Torn
  /\ UNCHANGED <<pipe, opened, eintr, lens, handled, lost, signals, crashes>>
ReadAgain ==
  /\ reader = "parse" /\ ~\E i, j \in DOMAIN buf : Found(i, j)
  /\ reader' = "read" /\ buf' = <<>> /\ torn' = torn \cup Torn
  /\ UNCHANGED <<pipe, opened, eintr, lens, handled, lost, signals, crashes>>

Parse == (\E i, j \in DOMAIN buf : Handle(i, j)) \/ ReadAgain

Next == \/ \E w \in Clients : Open(w) \/ CloseFifo(w) \/ \E len \in 1 .. BufSize - 2 : Send(w, len)
        \/ ReadInit \/ Crash \/ Interrupted \/ Read \/ Parse

Spec == Init /\ [][Next]_vars
\* The reader, once started, goes on.
FairSpec == Spec /\ WF_vars(Read) /\ WF_vars(Parse)

-----------------------------------------------------------------------------
Units == (1 .. MaxSends) \X (0 .. BufSize)

TypeOK ==
  /\ pipe \in Seq(Units) /\ Len(pipe) <= PipeSize
  /\ buf \in Seq(Units) /\ Len(buf) <= BufSize
  /\ opened \subseteq Clients /\ reader \in {"down", "read", "parse"} /\ eintr \in BOOLEAN
  /\ lens \in Seq(1 .. BufSize - 2) /\ handled \in Seq(Seq(Units))
  /\ torn \subseteq DOMAIN lens /\ lost \subseteq DOMAIN lens
  /\ signals \in 0 .. MaxSignals /\ crashes \in 0 .. MaxCrashes

\* A handler gets a whole command of one writer, whoever else writes at the same
\* time and wherever the reads end.
WholeCommands ==
  \A i \in DOMAIN handled :
    \E n \in DOMAIN lens : handled[i] = [k \in 1 .. lens[n] |-> <<n, k>>]

\* Commands are handled in the order in which they were written, each at most once,
\* over restarts of the reader as well.
InOrderOnce == \A i, j \in DOMAIN handled : i < j => handled[i][1][1] < handled[j][1][1]

\* A command that was written is lost only with the reader or the pipe, or because
\* the end of the buffer cut it.
NoneElseIsLost ==
  DOMAIN lens = Commands(pipe) \cup Commands(buf) \cup torn \cup lost
                \cup {handled[i][1][1] : i \in DOMAIN handled}

\* A command in the pipe gets to the reader's handlers or is cut; a reader that was
\* interrupted once may keep it until others have filled its buffer.
CommandsAreRead ==
  \A n \in 1 .. MaxSends :
    n \in Commands(pipe) \cup Commands(buf)
      ~> (n \notin Commands(pipe) \cup Commands(buf) \/ eintr \/ reader = "down")
=============================================================================
