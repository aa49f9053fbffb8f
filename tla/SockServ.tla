------------------------------- MODULE SockServ -------------------------------
(***************************************************************************)
(* SockServ: one thread accepts connections, starts a handler thread for   *)
(* every client it finds waiting and deletes the clients that are done;    *)
(* the handlers read a request and answer it, from a file or a fifo.       *)
(* What is shared is the table of descriptors: numbers that are closed by  *)
(* one thread are handed out again to another.                             *)
(***************************************************************************)
EXTENDS Integers, FiniteSets, FiniteSetsExt, SequencesExt

CONSTANTS MaxConns,  \* bound on the connections made, numbered as they come
          MaxFd      \* descriptors the process may have besides the listener

\* What the constants may be.
FdBounds == MaxFd \in Nat \ {0} /\ MaxConns \in Nat

Conns == 1 .. MaxConns

Fds == 1 .. MaxFd
Requests == {"text", "file", "fifo"}
Nobody == [use |-> "free"]
Sock(c) == [use |-> "sock", c |-> c]
File(c) == [use |-> "file", c |-> c]

VARIABLES peer,     \* external: the other end of every connection
          want,     \* external: what its request asks for
          cl,       \* the SockClient objects: their step and m_sockfd
          clients,  \* m_clients
          pc,       \* the handler thread of every client
          file,     \* the descriptor a handler reads from
          fdt,      \* the process's descriptors and what they stand for
          readfds,  \* m_readfds, without the listener
          main,     \* where the main loop is, and the client it deletes
          crossed,  \* history: Stop() has met a handler still closing its client
          foreign   \* history: a close has hit another's descriptor

vars == <<peer, want, cl, clients, pc, file, fdt, readfds, main, crossed, foreign>>

None == 0
Object == [st: {"none", "waiting", "start", "finish", "deleted"}, fd: {-1} \cup Fds]

FreeFds == {f \in Fds : fdt[f] = Nobody}
HasRoom == FreeFds # {}
Lowest == Min(FreeFds)      \* the number the kernel hands out

Closed(t, f) == [t EXCEPT ![f] = Nobody]
\* close(m_sockfd) closes whatever the number stands for by now.
CloseSocket(c) ==
    /\ fdt' = Closed(fdt, cl[c].fd)
    /\ foreign' = (foreign \/ fdt[cl[c].fd] \notin {Sock(c), Nobody})

-----------------------------------------------------------------------------
(* The peers (external) *)

Local == UNCHANGED <<cl, clients, pc, file, fdt, readfds, main, crossed, foreign>>

Connect(c) ==
    /\ peer[c] = "away" /\ \A d \in 1 .. c - 1 : peer[d] # "away"
    /\ peer' = [peer EXCEPT ![c] = "queued"]
    /\ UNCHANGED want /\ Local

Request(c) ==
    /\ peer[c] = "open" /\ peer' = [peer EXCEPT ![c] = "sent"]
    /\ \E k \in Requests : want' = [want EXCEPT ![c] = k]
    /\ Local

Hangup(c) ==
    /\ peer[c] \in {"open", "sent"} /\ peer' = [peer EXCEPT ![c] = "gone"]
    /\ UNCHANGED want /\ Local

-----------------------------------------------------------------------------
(* SockServ::Run *)

Queued == {c \in Conns : peer[c] = "queued"}
Backlog == Queued # {}
\* The kernel looks at the descriptor, not at the client the server thinks of.
Ready(f) == /\ fdt[f].use = "sock" /\ peer[fdt[f].c] \in {"sent", "gone"}

\* Mutant: the new socket is not put into the select set.
Accept_NotSet ==
    /\ main.at = "select" /\ readfds \cap FreeFds = {}
    /\ HasRoom
    /\ \E c \in Queued :
          /\ peer' = [peer EXCEPT ![c] = "open"]
          /\ cl' = [cl EXCEPT ![c] = [st |-> "waiting", fd |-> Lowest]]
          /\ clients' = Append(clients, c)
          /\ fdt' = [fdt EXCEPT ![Lowest] = Sock(c)]
    /\ UNCHANGED <<want, pc, file, readfds, main, crossed, foreign>>

\* accept() on a full table fails, and the loop selects again.
Accept ==
    /\ main.at = "select" /\ readfds \cap FreeFds = {}
    /\ HasRoom
    /\ \E c \in Queued :
          /\ peer' = [peer EXCEPT ![c] = "open"]
          /\ cl' = [cl EXCEPT ![c] = [st |-> "waiting", fd |-> Lowest]]
          /\ clients' = Append(clients, c)
          /\ fdt' = [fdt EXCEPT ![Lowest] = Sock(c)]
          /\ readfds' = readfds \cup {Lowest}
    /\ UNCHANGED <<want, pc, file, main, crossed, foreign>>

\* A descriptor that was closed behind its back makes select() fail: exit(-3).
SelectFails ==
    /\ main.at = "select" /\ readfds \cap FreeFds # {}
    /\ main' = [main EXCEPT !.at = "exited"]
    /\ UNCHANGED <<peer, want, cl, clients, pc, file, fdt, readfds, crossed, foreign>>

\* Nobody new, and somebody sent something: every waiting client is handled,
\* for isReadable() is true of a silent one too.
HandleDue(clr, next) ==
    /\ main.at = "select" /\ ~Backlog
    /\ readfds \cap FreeFds = {} /\ \E f \in readfds : Ready(f)
    /\ LET due == {c \in Conns : cl[c].st = "waiting" /\ cl[c].fd \notin FreeFds} IN
       /\ cl' = [c \in Conns |-> IF c \in due THEN [cl[c] EXCEPT !.st = "start"] ELSE cl[c]]
       /\ pc' = [c \in Conns |-> IF c \in due THEN "recv" ELSE pc[c]]
       /\ readfds' = IF clr THEN readfds \ {cl[c].fd : c \in due} ELSE readfds
    /\ main' = [main EXCEPT !.at = next]
    /\ UNCHANGED <<peer, want, clients, file, fdt, crossed, foreign>>

\* Mutants: without FD_CLR; without the loop that deletes finished clients.
HandleWaiting_NoClear == HandleDue(FALSE, "reap")
HandleWaiting_NoReap == HandleDue(TRUE, "select")
HandleWaiting == HandleDue(TRUE, "reap")

Finished == {k \in DOMAIN clients : cl[clients[k]].st = "finish"}

\* Stop(): close the socket, reset the number, join the handler.
ReapStop ==
    /\ main.at = "reap" /\ Finished # {}
    /\ LET c == clients[Min(Finished)] IN
       /\ crossed' = (crossed \/ pc[c] # "done")
       /\ IF cl[c].fd = -1 THEN UNCHANGED <<fdt, foreign>> ELSE CloseSocket(c)
       /\ main' = [at |-> "reset", who |-> {c}]
    /\ UNCHANGED <<peer, want, cl, clients, pc, file, readfds>>

ReapReset(c) ==
    /\ main = [at |-> "reset", who |-> {c}]
    /\ cl' = [cl EXCEPT ![c].fd = -1]
    /\ main' = [main EXCEPT !.at = "join"]
    /\ UNCHANGED <<peer, want, clients, pc, file, fdt, readfds, crossed, foreign>>

\* Mutant: the handler is not joined.
ReapJoin_NoJoin(c) ==
    /\ main = [at |-> "join", who |-> {c}]
    /\ cl' = [cl EXCEPT ![c].st = "deleted"]
    /\ clients' = RemoveFirst(clients, c)
    /\ main' = [at |-> "reap", who |-> {}]
    /\ UNCHANGED <<peer, want, pc, file, fdt, readfds, crossed, foreign>>

ReapJoin(c) ==
    /\ main = [at |-> "join", who |-> {c}] /\ pc[c] = "done"
    /\ cl' = [cl EXCEPT ![c].st = "deleted"]
    /\ clients' = RemoveFirst(clients, c)
    /\ main' = [at |-> "reap", who |-> {}]
    /\ UNCHANGED <<peer, want, pc, file, fdt, readfds, crossed, foreign>>

ReapEnds ==
    /\ main.at = "reap" /\ Finished = {}
    /\ main' = [main EXCEPT !.at = "select"]
    /\ UNCHANGED <<peer, want, cl, clients, pc, file, fdt, readfds, crossed, foreign>>

-----------------------------------------------------------------------------
(* SockClient: the handler thread *)

Runs == main.at # "exited"
Quiet == UNCHANGED <<peer, want, clients, readfds, main, crossed>>

\* The thread ends, and has seen (or not) that a peer which is gone is gone.
Ended(c) == cl' = [cl EXCEPT ![c].st = "finish"] /\ pc' = [pc EXCEPT ![c] = "done"]
Closing(c) == peer[c] = "gone" /\ pc' = [pc EXCEPT ![c] = "close"]

RecvRequest(c) ==
    /\ Runs /\ pc[c] = "recv" /\ peer[c] = "sent"
    /\ pc' = [pc EXCEPT ![c] = IF want[c] = "text" THEN "text" ELSE "open"]
    /\ UNCHANGED <<cl, file, fdt, foreign>> /\ Quiet

\* Fifty reads without the end of a request, or a failed one.  A peer that has
\* hung up: the step is set to FINISH first, and the socket closed after.
RecvFails(c) ==
    /\ Runs /\ pc[c] = "recv"
    /\ Ended(c) \/ (Closing(c) /\ cl' = [cl EXCEPT ![c].st = "finish"])
    /\ UNCHANGED <<file, fdt, foreign>> /\ Quiet

\* The end of HandleResponse: here the socket of a lost peer is closed first.
Answered(c) ==
    /\ Runs /\ pc[c] = "text"
    /\ Ended(c) \/ (Closing(c) /\ UNCHANGED cl)
    /\ UNCHANGED <<file, fdt, foreign>> /\ Quiet

\* ResponseMime, then the file; without a file the request fails with -1.
OpenFile(c) ==
    /\ Runs /\ pc[c] = "open" /\ HasRoom
    /\ fdt' = [fdt EXCEPT ![Lowest] = File(c)]
    /\ file' = [file EXCEPT ![c] = Lowest]
    /\ pc' = [pc EXCEPT ![c] = "stream"]
    /\ UNCHANGED <<cl, foreign>> /\ Quiet

OpenFails(c) ==
    /\ Runs /\ pc[c] = "open"
    /\ Ended(c) \/ (Closing(c) /\ UNCHANGED cl)
    /\ UNCHANGED <<file, fdt, foreign>> /\ Quiet

\* The end of the file: -4 is returned with the descriptor still open, and a
\* fifo is opened once more; so it is after a read that fails, which ends both.
StreamEnds(c) ==
    /\ Runs /\ pc[c] = "stream"
    /\ file' = [file EXCEPT ![c] = None]
    /\ \/ want[c] = "fifo" /\ pc' = [pc EXCEPT ![c] = "open"] /\ UNCHANGED cl
       \/ Ended(c)
    /\ UNCHANGED <<fdt, foreign>> /\ Quiet

\* The peer is gone: seen by recv (the descriptor stays open) or by send (the
\* inner abort flag ends the loop, the file is closed and the result is 0).
StreamLosesPeer(c) ==
    /\ Runs /\ pc[c] = "stream" /\ peer[c] = "gone"
    /\ file' = [file EXCEPT ![c] = None]
    /\ \/ Closing(c) /\ UNCHANGED <<cl, fdt, foreign>>
       \/ /\ Ended(c)
          /\ fdt' = Closed(fdt, file[c])
          /\ foreign' = (foreign \/ fdt[file[c]] \notin {File(c), Nobody})
    /\ Quiet

HandlerCloses(c) ==
    /\ Runs /\ pc[c] = "close"
    /\ IF cl[c].fd = -1 THEN UNCHANGED <<fdt, foreign>> ELSE CloseSocket(c)
    /\ pc' = [pc EXCEPT ![c] = "reset"]
    /\ UNCHANGED <<cl, file>> /\ Quiet

\* Mutants: m_sockfd keeps the closed number; it is reset to 0.
HandlerResets_Keeps(c) == Runs /\ pc[c] = "reset" /\ Ended(c) /\ UNCHANGED <<file, fdt, foreign>> /\ Quiet
HandlerResets_Zero(c) ==
    /\ Runs /\ pc[c] = "reset"
    /\ cl' = [cl EXCEPT ![c] = [st |-> "finish", fd |-> 0]]
    /\ pc' = [pc EXCEPT ![c] = "done"]
    /\ UNCHANGED <<file, fdt, foreign>> /\ Quiet

\* m_sockfd = -1, and FINISH where it is not set yet.
HandlerResets(c) ==
    /\ Runs /\ pc[c] = "reset"
    /\ cl' = [cl EXCEPT ![c] = [st |-> "finish", fd |-> -1]]
    /\ pc' = [pc EXCEPT ![c] = "done"]
    /\ UNCHANGED <<file, fdt, foreign>> /\ Quiet

-----------------------------------------------------------------------------
Init ==
    /\ peer = [c \in Conns |-> "away"] /\ want = [c \in Conns |-> "text"]
    /\ cl = [c \in Conns |-> [st |-> "none", fd |-> -1]] /\ clients = <<>>
    /\ pc = [c \in Conns |-> "idle"] /\ file = [c \in Conns |-> None]
    /\ fdt = [f \in Fds |-> Nobody] /\ readfds = {}
    /\ main = [at |-> "select", who |-> {}]
    /\ crossed = FALSE /\ foreign = FALSE

Handler(c) == \/ RecvRequest(c) \/ RecvFails(c) \/ Answered(c) \/ OpenFile(c) \/ OpenFails(c)
              \/ StreamEnds(c) \/ StreamLosesPeer(c) \/ HandlerCloses(c) \/ HandlerResets(c)
Peers(c) == Connect(c) \/ Request(c) \/ Hangup(c)
Main == \/ Accept \/ SelectFails \/ HandleWaiting \/ ReapStop \/ ReapEnds
        \/ \E c \in Conns : ReapReset(c) \/ ReapJoin(c)

Next == Main \/ \E c \in Conns : Handler(c) \/ Peers(c)
Spec == Init /\ [][Next]_vars

\* The threads run; a fifo stream need not end, a peer need not do anything.
FairSpec == /\ Spec /\ WF_vars(Main)
            /\ \A c \in Conns : WF_vars(Handler(c))

-----------------------------------------------------------------------------
(* Properties *)

TypeOK ==
    /\ peer \in [Conns -> {"away", "queued", "open", "sent", "gone"}]
    /\ want \in [Conns -> Requests] /\ cl \in [Conns -> Object]
    /\ clients \in Seq(Conns) /\ file \in [Conns -> {None} \cup Fds]
    /\ pc \in [Conns -> {"idle", "recv", "text", "open", "stream", "close", "reset", "done"}]
    /\ \A f \in Fds : fdt[f] = Nobody \/ \E c \in Conns : fdt[f] \in {Sock(c), File(c)}
    /\ readfds \subseteq Fds /\ {crossed, foreign} \subseteq BOOLEAN
    /\ main \in [at: {"select", "reap", "reset", "join", "exited"}, who: SUBSET Conns]

\* A close hits a number that by now belongs to another connection or file
\* only where Stop() ran into a handler that was itself closing the client.
ClosesItsOwn == foreign => crossed

\* As long as that has not happened, the select set is the set of the waiting
\* clients' open sockets: no connection is forgotten, none is waited for that
\* a handler already reads from, and select never fails.
WaitingAreSelected ==
    ~crossed => /\ readfds = {cl[c].fd : c \in {d \in Conns : cl[d].st = "waiting"}}
                    /\ \A c \in Conns : cl[c].st = "waiting" => fdt[cl[c].fd] = Sock(c)
                    /\ main.at # "exited"

\* A client object is deleted only when its handler thread is over, and the
\* list holds exactly the live objects.
DeletesNoRunning ==
    \A c \in Conns : /\ cl[c].st = "deleted" => pc[c] = "done"
                     /\ cl[c].st \in {"waiting", "start", "finish"} <=> Contains(clients, c)

\* A client that has asked for something gets a handler, unless the table of
\* descriptors is full (every file sent to its end leaves one open) or the
\* server has exited.
AskedIsHandled ==
    \A c \in Conns : (cl[c].st = "waiting" /\ peer[c] = "sent")
                        ~> (cl[c].st # "waiting" \/ ~HasRoom \/ ~Runs)

\* A finished client is closed and deleted at the latest when another client
\* has asked for something: there is no other occasion.
Asks == \E d \in Conns : cl[d].st = "waiting" /\ peer[d] = "sent"
FinishedIsReaped ==
    \A c \in Conns : (cl[c].st = "finish" /\ Asks) ~> (cl[c].st = "deleted" \/ ~HasRoom \/ ~Runs)
=============================================================================
