------------------------------- MODULE MCUtils -------------------------------
(***************************************************************************)
(* The parts of lzUtils, each on its own: the sound device, the rings, the *)
(* list and the queue on it, the growing block, the voice detection and    *)
(* the command pipe; with them the sound device of allPlay and the         *)
(* Base64Tool of cppUtils.  They share no state; a behaviour is one of one *)
(* of them and the others stay as they begin.                              *)
(***************************************************************************)
EXTENDS AlsaCtrl, FiniteSets

CONSTANTS Kinds, Cap, Width, Period, MaxOdd,        \* Rings
          Data, Nodes, NULL, WalkEmpty,             \* DllFifo
          Readers, Writers, Max, MaxPushes, Long,   \* DfqFifo
          MaxConfirm, MaxUnits,                     \* Vad
          PreBytes, MaxWrite, MaxBytes,             \* Autom
          Clients, PipeSize, BufSize, MaxSends, MaxSignals, MaxCrashes, \* UserFifo
          MaxFaults,                                \* AlsaController
          Bytes, MaxFile, MaxBlock                  \* Base64Tool

VARIABLES which,
          kind, wsize, rsize, mem, wi, ri, contex, asked, reading, wcm, rcm, in, out,
          odd, odds, wild,
          next, prev, data, used, front, back, nodes, crashed,
          size, exit, at, holds, pushes, wrote, cycled, swallowed,
          startedConfirmCount, finishedConfirmCount, savedStatus, confirmCount, loud, silent,
          pre_bytes, space, cur_bytes, tail, head, written, moved, unread, mixed, stray,
          pipe, opened, reader, buf, eintr, lens, handled, torn, lost, signals, crashes,
          canPause, state, c, p, given, status, pauseFlag, stopFlag, dec, late, api,
          apiCalls, faults,
          file, eniBytes, dniBytes, pos, lines, line, output, phase

ring  == <<kind, wsize, rsize, mem, wi, ri, contex, asked, reading, wcm, rcm, in, out,
           odd, odds, wild>>
list  == <<next, prev, data, used, front, back, nodes, crashed>>
queue == <<size, exit, at, holds, pushes, wrote, cycled, swallowed>>
vad   == <<startedConfirmCount, finishedConfirmCount, savedStatus, confirmCount, loud, silent>>
block == <<pre_bytes, space, cur_bytes, tail, head, written, moved, unread, mixed, stray>>
fifo  == <<pipe, opened, reader, buf, eintr, lens, handled, torn, lost, signals, crashes>>
sound == <<canPause, state, c, p, given, status, pauseFlag, stopFlag, dec, late, api,
           apiCalls, faults>>
code  == <<file, eniBytes, dniBytes, pos, lines, line, output, phase>>

R == INSTANCE Rings
L == INSTANCE DllFifo WITH size <- nodes
Q == INSTANCE DfqFifo
V == INSTANCE Vad
A == INSTANCE Autom
F == INSTANCE UserFifo
S == INSTANCE AlsaController WITH can_pause <- canPause, pcm <- state, calls <- apiCalls
B == INSTANCE Base64Tool

ASSUME InstanceAssumption ==
    /\ R!RingBounds /\ L!NodeBounds /\ Q!QueueBounds /\ V!ConfirmBounds /\ A!SizeBounds
    /\ F!FifoBounds /\ S!ControllerBounds /\ B!Base64Bounds

all == <<which, vars, ring, list, queue, vad, block, fifo, sound, code>>

UtilsInit ==
    /\ which \in {"alsa_ctrl", "rings", "dll_fifo", "dfq_fifo", "vad_op", "autom",
                 "user_fifo", "AlsaController", "Base64Tool"}
    /\ Init   /\ (which # "alsa_ctrl" => ~can_pause)
    /\ R!Init /\ (which # "rings" => kind = "ccsrb")
    /\ L!Init /\ (which # "dll_fifo" => data = [nd \in Nodes |-> CHOOSE d \in Data : TRUE])
    /\ V!Init /\ (which # "vad_op" => startedConfirmCount = 0 /\ finishedConfirmCount = 0)
    /\ S!Init /\ (which # "AlsaController" => ~canPause)
    /\ Q!Init /\ A!Init /\ F!Init
    /\ B!Init /\ (which # "Base64Tool" => file = <<>> /\ eniBytes = 1 /\ dniBytes = 1)

older == <<vars, ring, list, queue, vad, block>>
newer == <<fifo, sound, code>>

\* A step of one part.
Alsa(act)  == which = "alsa_ctrl" /\ act /\ UNCHANGED <<which, ring, list, queue, vad, block, newer>>
Ring(act)  == which = "rings" /\ act /\ UNCHANGED <<which, vars, list, queue, vad, block, newer>>
List(act)  == which = "dll_fifo" /\ act /\ UNCHANGED <<which, vars, ring, queue, vad, block, newer>>
Queue(act) == which = "dfq_fifo" /\ act /\ UNCHANGED <<which, vars, ring, list, vad, block, newer>>
Voice(act) == which = "vad_op" /\ act /\ UNCHANGED <<which, vars, ring, list, queue, block, newer>>
Block(act) == which = "autom" /\ act /\ UNCHANGED <<which, vars, ring, list, queue, vad, newer>>
Fifo(act)  == which = "user_fifo" /\ act /\ UNCHANGED <<which, older, sound, code>>
Sound(act) == which = "AlsaController" /\ act /\ UNCHANGED <<which, older, fifo, code>>
Code(act)  == which = "Base64Tool" /\ act /\ UNCHANGED <<which, older, fifo, sound>>

UtilsNext == \/ Alsa(Next) \/ Ring(R!Next) \/ List(L!Next) \/ Queue(Q!Next)
             \/ Voice(V!Next) \/ Block(A!Next)
             \/ Fifo(F!Next) \/ Sound(S!Next) \/ Code(B!Next)

\* The sound devices and the reader of the pipe have a fairness.
UtilsSpec ==
    /\ UtilsInit /\ [][UtilsNext]_all
    /\ WF_all(Alsa(Plays)) /\ WF_all(Alsa(Writei)) /\ WF_all(Alsa(WriteFails))
    /\ SF_all(Alsa(Controlled))
    /\ WF_all(Fifo(F!Read)) /\ WF_all(Fifo(F!Parse))
    /\ WF_all(Sound(S!Plays)) /\ WF_all(Sound(S!AlsaResume))

-----------------------------------------------------------------------------
(* The properties of the modules, but ControlsHold, which keeps its name.   *)

\* Every variable keeps its type, in each of the parts.
TypesOK == TypeOK /\ R!TypeOK /\ L!TypeOK /\ Q!TypeOK /\ V!TypeOK /\ A!TypeOK
           /\ F!TypeOK /\ S!TypeOK /\ B!TypeOK

\* What a reader of csrb or ccsrb was granted is the stream and stays so until it
\* lets go of it, unless the ring was cleared between a query and its sync or the
\* sizes of csrb's callers do not fit; and a place leaves the ring only after a clear
\* or a query before a sync, or a sync of fewer bytes.  A reader of autom sees its
\* bytes in their order, but for those that breset cut off, unless a write came when
\* some were read and some not; they and their final zero fit into its block, except
\* from a breset that cut it to the next write that grows it.
BytesKeepOrder == R!GrantedIsStream /\ R!StaysInTheRing /\ A!ReadsInOrder /\ A!FitsTheBlock

\* A list of dll_fifo is the same from either end, and implements a deque of its
\* data, node by node.
ListIsDeque == []L!LinkedBothWays /\ L!IsDeque

\* The only reader of a dfq_fifo does not sleep while there are elements, unless
\* a timed write took its signal; and with one writer, and neither a cycWrite
\* nor a setExit, the queue keeps to its size.
QueueHolds == Q!NobodySleepsOnData /\ Q!KeepsToItsSize

\* vad_op reports a start only after enough loud chunks in a row, and an end when
\* enough of them were silent, and then.
VoiceInRows == []V!StartsLoud /\ V!FinishesOnTime

\* Commands of user_fifo are handled whole, in the order in which they were
\* written, each at most once, over restarts of the reader as well, and only the
\* ends of the reader, of the pipe or of its buffer lose one.
FifoKeepsCommands == F!WholeCommands /\ F!InOrderOnce /\ F!NoneElseIsLost

\* The device of allPlay takes the frames of a chunk in their order, once each; a
\* paused player is not heard, unless the writer overtook the resume before; and
\* only a resume that has not prepared the device yet cuts a chunk short.
SoundHolds == [](S!GivenInOrder /\ S!PausedIsQuiet) /\ S!ChunkIsWhole

\* A file that Base64Tool encoded comes back as it was, or, when the lines do not
\* fit, its beginning; and its buffers hold what is written to them.
CodeRoundTrips == B!RoundTrip /\ B!DecodesABeginning /\ B!BuffersHold

\* A call of alsa_ctrl returns, unless the writer fills a paused device; a command
\* in the pipe is taken up, unless the reader was interrupted once; a chunk of
\* allPlay is written to its end.
UtilsProgress == CallsReturn /\ F!CommandsAreRead /\ S!WriteEnds
=============================================================================
