-------------------------------- MODULE Uartd --------------------------------
(***************************************************************************)
(* uartd: the reader thread cuts frames ^...\n out of what the serial line *)
(* delivers and puts them into a bounded fifo, the parser thread executes  *)
(* them and puts replies into a second one, the writer thread sends those. *)
(* A CondFifo has one consumer, which waits on a condition variable; the   *)
(* producer notifies after it has unlocked, and a full fifo drops.         *)
(***************************************************************************)
EXTENDS Integers, SequencesExt

CONSTANTS MaxRx,   \* bound on the characters received
          MaxRead, \* characters one read() can return
          RxCap,   \* capacity of rFifo
          TxCap    \* capacity of wFifo

\* What the constants may be.
CapBounds == {RxCap, TxCap, MaxRead} \subseteq Nat \ {0} /\ MaxRx \in Nat

\* "q" stands for a command that is answered, "a" for one that is not known.
Chars == {"^", "\n", "q", "a"}
Reply == <<"^", "r", "\n">>

VARIABLES rx,     \* everything the line has delivered
          req,    \* the reader's buffer
          need,   \* need_to_get_new_cmd
          reader, \* "read", or "notify" between unlock and notify_one
          cut,    \* history: the frames the reader has cut, dropped ones too
          rq,     \* rFifo, oldest first
          parser, \* "take", "asleep" in the wait, or "notify"
          wq,     \* wFifo
          writer, \* "take" or "asleep"
          rest,   \* what the writer still has to write of its frame
          line,   \* everything written to the line
          sent    \* history: replies accepted by wFifo

vars == <<rx, req, need, reader, cut, rq, parser, wq, writer, rest, line, sent>>

Find(s, ch) == SelectInSeq(s, LAMBDA x : x = ch)     \* 0 when there is none
From(s, k) == SubSeq(s, k, Len(s))

-----------------------------------------------------------------------------
(* HardReadProcess *)

\* The buffer once new characters are there and, if a new command is looked
\* for, everything in front of its head is gone.
Headed(r) == IF ~need THEN r
             ELSE IF Find(r, "^") = 0 THEN <<>> ELSE From(r, Find(r, "^"))

\* Mutant: what follows the frame in the buffer is thrown away with it.
ReadSome_DropsRest(n) ==
    /\ reader = "read" /\ Len(rx) + n <= MaxRx
    /\ \E new \in [1 .. n -> Chars] :
       LET r == Headed(req \o new)
           t == Find(r, "\n") IN
       /\ rx' = rx \o new
       /\ IF r = <<>> \/ t = 0
          THEN req' = r /\ need' = (r = <<>>) /\ UNCHANGED <<cut, rq, reader>>
          ELSE /\ req' = <<>> /\ need' = TRUE
               /\ cut' = Append(cut, SubSeq(r, 1, t - 1))
               /\ rq' = Append(rq, SubSeq(r, 1, t - 1)) /\ reader' = "notify"
    /\ UNCHANGED <<parser, wq, writer, rest, line, sent>>

\* At most one frame is cut out per read.
ReadSome(n) ==
    /\ reader = "read" /\ Len(rx) + n <= MaxRx
    /\ \E new \in [1 .. n -> Chars] :
       LET r == Headed(req \o new)
           t == Find(r, "\n") IN
       /\ rx' = rx \o new
       /\ IF r = <<>>
          THEN req' = <<>> /\ need' = TRUE /\ UNCHANGED <<cut, rq, reader>>
          ELSE IF t = 0
          THEN req' = r /\ need' = FALSE /\ UNCHANGED <<cut, rq, reader>>
          ELSE /\ req' = From(r, t + 1) /\ need' = TRUE
               /\ cut' = Append(cut, SubSeq(r, 1, t - 1))
               /\ IF Len(rq) < RxCap
                  THEN rq' = Append(rq, SubSeq(r, 1, t - 1)) /\ reader' = "notify"
                  ELSE UNCHANGED <<rq, reader>>
    /\ UNCHANGED <<parser, wq, writer, rest, line, sent>>

\* Mutant: writeOne() does not notify.
ReaderNotifies_Nobody ==
    /\ reader = "notify"
    /\ reader' = "read"
    /\ UNCHANGED <<rx, req, need, cut, rq, parser, wq, writer, rest, line, sent>>

\* notify_one reaches the consumer only if it is in its wait.
ReaderNotifies ==
    /\ reader = "notify"
    /\ reader' = "read"
    /\ parser' = IF parser = "asleep" THEN "take" ELSE parser
    /\ UNCHANGED <<rx, req, need, cut, rq, wq, writer, rest, line, sent>>

-----------------------------------------------------------------------------
(* CmdparseProcess: the frame's first character is its head *)

ParserWaits ==
    /\ parser = "take" /\ rq = <<>>
    /\ parser' = "asleep"
    /\ UNCHANGED <<rx, req, need, reader, cut, rq, wq, writer, rest, line, sent>>

IsQuery(frame) == Tail(frame) = <<"q">>

Parse ==
    /\ parser = "take" /\ rq # <<>>
    /\ rq' = Tail(rq)
    /\ IF IsQuery(Head(rq)) /\ Len(wq) < TxCap
       THEN /\ wq' = Append(wq, Reply) /\ sent' = sent + 1
            /\ parser' = "notify"
       ELSE UNCHANGED <<wq, sent, parser>>
    /\ UNCHANGED <<rx, req, need, reader, cut, writer, rest, line>>

ParserNotifies ==
    /\ parser = "notify"
    /\ parser' = "take"
    /\ writer' = IF writer = "asleep" THEN "take" ELSE writer
    /\ UNCHANGED <<rx, req, need, reader, cut, rq, wq, rest, line, sent>>

-----------------------------------------------------------------------------
(* HardWriteProcess: write() may take a part of the frame only *)

WriterWaits ==
    /\ writer = "take" /\ rest = <<>> /\ wq = <<>>
    /\ writer' = "asleep"
    /\ UNCHANGED <<rx, req, need, reader, cut, rq, parser, wq, rest, line, sent>>

WriterTakes ==
    /\ writer = "take" /\ rest = <<>> /\ wq # <<>>
    /\ rest' = Head(wq) /\ wq' = Tail(wq)
    /\ UNCHANGED <<rx, req, need, reader, cut, rq, parser, writer, line, sent>>

\* Mutant: the count of write() is ignored.
WriteSome_Once ==
    /\ \E n \in 1 .. Len(rest) : line' = line \o SubSeq(rest, 1, n)
    /\ rest' = <<>>
    /\ UNCHANGED <<rx, req, need, reader, cut, rq, parser, wq, writer, sent>>

WriteSome ==
    /\ \E n \in 1 .. Len(rest) :
          /\ line' = line \o SubSeq(rest, 1, n)
          /\ rest' = From(rest, n + 1)
    /\ UNCHANGED <<rx, req, need, reader, cut, rq, parser, wq, writer, sent>>

-----------------------------------------------------------------------------
Init == /\ rx = <<>> /\ req = <<>> /\ need = TRUE /\ reader = "read" /\ cut = <<>>
        /\ rq = <<>> /\ parser = "take" /\ wq = <<>> /\ writer = "take"
        /\ rest = <<>> /\ line = <<>> /\ sent = 0

ParserRuns == ParserWaits \/ Parse \/ ParserNotifies
WriterRuns == WriterWaits \/ WriterTakes \/ WriteSome
Next == \/ \E n \in 1 .. MaxRead : ReadSome(n)
        \/ ReaderNotifies
        \/ ParserRuns
        \/ WriterRuns

Spec == Init /\ [][Next]_vars

\* The threads run; the line delivers what it likes.
FairSpec == Spec /\ WF_vars(ReaderNotifies) /\ WF_vars(ParserRuns) /\ WF_vars(WriterRuns)

-----------------------------------------------------------------------------
(* Properties *)

TypeOK ==
    /\ {rx, req, line, rest} \subseteq Seq(Chars \cup {"r"}) /\ need \in BOOLEAN
    /\ reader \in {"read", "notify"} /\ writer \in {"take", "asleep"}
    /\ parser \in {"take", "asleep", "notify"}
    /\ Len(rq) <= RxCap /\ Len(wq) <= TxCap
    /\ \A k \in DOMAIN rq : rq[k][1] = "^"      \* the parser strips one character

\* The frames of a stream: a head outside a frame opens one, the next newline
\* closes it, everything else is skipped.  A frame is known by where it opens.
Opens(s, i) == s[i] = "^" /\ \A j \in 1 .. i - 1 : s[j] = "^" => \E k \in j .. i : s[k] = "\n"
Closes(s, i, e) == i < e /\ s[e] = "\n" /\ \A k \in i .. e - 1 : s[k] # "\n"
Complete(s) == {i \in 1 .. Len(s) : Opens(s, i) /\ \E e \in 1 .. Len(s) : Closes(s, i, e)}
Frame(s, i) == SubSeq(s, i, (CHOOSE e \in 1 .. Len(s) : Closes(s, i, e)) - 1)
Nth(s, i) == Cardinality({j \in Complete(s) : j <= i})

\* However the stream is cut into reads, the reader finds its frames, in
\* order, none made up and none passed over.
CutsTheFrames ==
    /\ Len(cut) <= Cardinality(Complete(rx))
    /\ \A i \in Complete(rx) : Nth(rx, i) <= Len(cut) => cut[Nth(rx, i)] = Frame(rx, i)

\* A frame that is complete when a read returns is not passed over: every read
\* that could cut one does.  (It cuts one only: the others wait for more input.)
ReadsKeepPace ==
    [][rx' # rx /\ Cardinality(Complete(rx')) > Len(cut) => Len(cut') = Len(cut) + 1]_vars

\* Replies reach the line whole, unmixed and in order, however write() splits
\* them: what is written, half written and queued is exactly what was accepted.
RepliesWhole ==
    LET out == line \o rest
        n == Len(Reply)
    IN  /\ Len(out) + n * Len(wq) = n * sent
        /\ \A i \in 1 .. Len(out) : out[i] = Reply[((i - 1) % n) + 1]
        /\ \A k \in 1 .. Len(wq) : wq[k] = Reply

\* Neither consumer sleeps through a notification: accepted commands are
\* parsed and accepted replies written.
FifosDrain == []<>(rq = <<>>) /\ []<>(wq = <<>> /\ rest = <<>>)
=============================================================================
