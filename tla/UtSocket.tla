------------------------------ MODULE UtSocket ------------------------------
(***************************************************************************)
(* The servers of ut_socket: one loop that selects, or waits for epoll,    *)
(* accepts a connection and runs the callbacks pRcbk and pWcbk for those   *)
(* that are ready.  The select servers look connections up in a table of   *)
(* FD_SETSIZE slots, of which in_select_tcp_server takes the first free    *)
(* one for a connection, un_select_tcp_server all of them.  The epoll      *)
(* servers handle at most EVENTS_SIZE events and only those that are       *)
(* exactly EPOLLIN or EPOLLOUT, so one with a hangup, which a local peer   *)
(* that closes causes, is never handled.                                   *)
(***************************************************************************)
EXTENDS Naturals, FiniteSets, Sequences, SequencesExt

CONSTANTS Conns,       \* connections; each connects once
          None,
          Kinds,       \* which of the servers run
          Size,        \* FD_SETSIZE or EVENTS_SIZE
          MaxAsks      \* bound on what the peers ask

\* The servers, by what tells them apart: how they wait, whether their peers are
\* local, whether they start with a table of datagram sockets.
Server(waits, local, udp) == [waits |-> waits, local |-> local, udp |-> udp]
in_epoll_tcp_server == Server("epoll", FALSE, FALSE)
un_epoll_tcp_server == Server("epoll", TRUE, FALSE)
in_epoll_udp_server == Server("epoll", FALSE, TRUE)
un_epoll_udp_server == Server("epoll", TRUE, TRUE)
in_select_tcp_server == Server("select", FALSE, FALSE)
un_select_tcp_server == Server("select", TRUE, FALSE)
in_select_udp_server == Server("select", FALSE, TRUE)
un_select_udp_server == Server("select", TRUE, TRUE)
Servers == [waits : {"epoll", "select"}, local : BOOLEAN, udp : BOOLEAN]

\* What the constants may be.
ServerBounds ==
    /\ None \notin Conns /\ Size \in Nat \ {0} /\ MaxAsks \in Nat
    /\ Kinds \subseteq Servers
    /\ IsFiniteSet(Conns) /\ Cardinality(Conns) <= Size

Slots == 1 .. Size
Waiting == 0
Accepting == Size + 1
Listener == None       \* the listening socket among those that are ready

VARIABLES kind,        \* the server that runs
          backlog,     \* connections not accepted yet
          peer,        \* "away", "up" or "gone"
          asked,       \* connections with something to read
          asks,
          interest,    \* allset, or what epoll was asked for: "none", "in" or "out"
          conn_a,      \* the table of the select servers
          nReady,      \* how many are ready; the select servers count it down
          ready,       \* rset, or the events that are left to handle
          at           \* where the server is: Waiting, Accepting, or at a slot

client == <<backlog, peer, asked, asks>>
server == <<kind, interest, conn_a, nReady, ready, at>>
vars == <<client, server>>

Selects == kind.waits = "select"
Udp == kind.udp

Connect(c) == /\ peer[c] = "away" /\ peer' = [peer EXCEPT ![c] = "up"]
              /\ backlog' = Append(backlog, c)
              /\ UNCHANGED <<asked, asks, server>>
Ask(c) == /\ peer[c] = "up" /\ c \notin asked /\ asks < MaxAsks
          /\ asked' = asked \cup {c} /\ asks' = asks + 1
          /\ UNCHANGED <<backlog, peer, server>>
Close(c) == /\ ~Udp /\ peer[c] = "up" /\ peer' = [peer EXCEPT ![c] = "gone"]
            /\ UNCHANGED <<backlog, asked, asks, server>>

Readable == {c \in Conns : interest[c] = "in" /\ (c \in asked \/ peer[c] = "gone")}
Writable == {c \in Conns : interest[c] = "out"}
Pending == Readable \cup Writable \cup (IF backlog # <<>> THEN {Listener} ELSE {})

\* my_select, my_epoll_wait.
Wait == /\ at = Waiting /\ Pending # {}
        /\ ready' \in IF Selects THEN {Pending}
                      ELSE {b \in SUBSET Pending : \/ b = Pending
                                                   \/ b # {} /\ Cardinality(b) = Size}
        /\ nReady' = Cardinality(ready') /\ (Selects \/ nReady' <= Size)
        /\ at' = Accepting
        /\ UNCHANGED <<client, kind, interest, conn_a>>

FreeSlots == {i \in Slots : conn_a[i] = None}

\* Mutant: the loop over the table does not stop at the free slot.
TakenByIn_All == FreeSlots
TakenByIn == {i \in FreeSlots : \A j \in FreeSlots : i <= j}
TakenByUn == FreeSlots
Taken == IF kind.local THEN TakenByUn ELSE TakenByIn

\* The listening socket first; the slots are looked at when something is left.
SelectAccept ==
    /\ Selects /\ at = Accepting
    /\ IF Listener \in ready
       THEN LET c == Head(backlog)
            IN  /\ backlog' = Tail(backlog) /\ interest' = [interest EXCEPT ![c] = "in"]
                /\ conn_a' = [i \in Slots |-> IF i \in Taken THEN c ELSE conn_a[i]]
       ELSE UNCHANGED <<backlog, interest, conn_a>>
    /\ nReady' = Cardinality(ready \ {Listener})
    /\ at' = IF nReady' = 0 THEN Waiting ELSE 1
    /\ ready' = IF at' = Waiting THEN {} ELSE ready
    /\ UNCHANGED <<kind, peer, asked, asks>>

\* The read callback says 1 of a peer that closed; otherwise both callbacks run.
Serve(c, i) ==
    IF c \in asked THEN asked' = asked \ {c} /\ UNCHANGED <<interest, conn_a>>
    ELSE /\ interest' = [interest EXCEPT ![c] = "none"]
         /\ conn_a' = [conn_a EXCEPT ![i] = None] /\ UNCHANGED asked

SelectSlot ==
    /\ Selects /\ at \in Slots
    /\ LET c == conn_a[at]
       IN  IF c \in ready \ {Listener} THEN Serve(c, at) /\ nReady' = nReady - 1
           ELSE UNCHANGED <<interest, conn_a, asked, nReady>>
    /\ at' = IF nReady' = 0 \/ at = Size THEN Waiting ELSE at + 1
    /\ ready' = IF at' = Waiting THEN {} ELSE ready
    /\ UNCHANGED <<kind, backlog, peer, asks>>

\* The epoll servers: the events in the order in which they come.
EpollAccept ==
    /\ ~Selects /\ at = Accepting /\ Listener \in ready
    /\ ready' = ready \ {Listener} /\ at' = IF ready' = {} THEN Waiting ELSE at
    /\ IF nReady + 1 <= Size /\ backlog # <<>>
       THEN backlog' = Tail(backlog) /\ interest' = [interest EXCEPT ![Head(backlog)] = "in"]
       ELSE UNCHANGED <<backlog, interest>>
    /\ UNCHANGED <<kind, nReady, peer, asked, asks, conn_a>>

HungUp(c) == kind.local /\ peer[c] = "gone"

\* Mutant: a connection that was written to keeps waiting for EPOLLOUT.
EpollEvent_NoMod(c) ==
    /\ ~Selects /\ at = Accepting /\ c \in ready
    /\ ready' = ready \ {c} /\ at' = IF ready' = {} THEN Waiting ELSE at
    /\ interest' = [interest EXCEPT ![c] = IF HungUp(c) THEN @
                                           ELSE IF c \in asked THEN "out" ELSE
                                                IF @ = "out" THEN "out" ELSE "none"]
    /\ asked' = IF HungUp(c) \/ interest[c] # "in" THEN asked ELSE asked \ {c}
    /\ UNCHANGED <<kind, nReady, backlog, peer, asks, conn_a>>

\* EPOLLIN: the read callback says 0 and the reply is waited for, or 1 and the
\* connection is taken out; EPOLLOUT: it is read from again.
EpollEvent(c) ==
    /\ ~Selects /\ at = Accepting /\ c \in ready
    /\ ready' = ready \ {c} /\ at' = IF ready' = {} THEN Waiting ELSE at
    /\ interest' = [interest EXCEPT ![c] = IF HungUp(c) THEN @
                                           ELSE IF @ = "out" THEN "in" ELSE
                                                IF c \in asked THEN "out" ELSE "none"]
    /\ asked' = IF HungUp(c) \/ interest[c] # "in" THEN asked ELSE asked \ {c}
    /\ UNCHANGED <<kind, nReady, backlog, peer, asks, conn_a>>

\* The tcp servers start with nothing to serve, the udp ones with a table of
\* sockets.
StartTcp == /\ interest = [c \in Conns |-> "none"] /\ peer = [c \in Conns |-> "away"]
            /\ conn_a = [i \in Slots |-> None]
StartUdp == /\ interest = [c \in Conns |-> "in"] /\ peer = [c \in Conns |-> "up"]
            /\ conn_a = [i \in Slots |-> IF i <= Cardinality(Conns)
                                        THEN SetToSeq(Conns)[i] ELSE None]
Init == /\ kind \in Kinds /\ (IF Udp THEN StartUdp ELSE StartTcp)
        /\ backlog = <<>> /\ asked = {} /\ asks = 0
        /\ nReady = 0 /\ ready = {} /\ at = Waiting

Serves == \/ Wait \/ SelectAccept \/ SelectSlot
          \/ EpollAccept \/ \E c \in Conns : EpollEvent(c)
Next == (\E c \in Conns : Connect(c) \/ Ask(c) \/ Close(c)) \/ Serves

Spec == Init /\ [][Next]_vars
FairSpec == Spec /\ WF_vars(Serves)
-----------------------------------------------------------------------------
TypeOK == /\ kind \in Kinds /\ IsInjective(backlog) /\ ToSet(backlog) \subseteq Conns
          /\ peer \in [Conns -> {"away", "up", "gone"}]
          /\ asked \subseteq Conns /\ asks \in 0 .. MaxAsks
          /\ interest \in [Conns -> {"none", "in", "out"}]
          /\ conn_a \in [Slots -> Conns \cup {None}]
          /\ nReady \in 0 .. Cardinality(Conns) + 1 /\ ready \subseteq Conns \cup {Listener}
          /\ (at = Waiting => ready = {})
          /\ at \in Slots \cup {Waiting, Accepting}

\* The select servers but un_select_tcp_server watch just the connections of
\* their table, each in one slot.
TableIsWatched ==
    Selects /\ (kind.local => Udp) =>
      /\ {c \in Conns : interest[c] # "none"} = {conn_a[i] : i \in Slots} \ {None}
      /\ \A i, j \in Slots : conn_a[i] = conn_a[j] /\ conn_a[i] # None => i = j

\* Whatever a peer asks is read, however the others come and go.
AskedIsRead == \A c \in Conns : c \in asked ~> c \notin asked
=============================================================================
