----------------------------- MODULE MCServices -----------------------------
(***************************************************************************)
(* The programs that serve others, each on its own: AppManager with two    *)
(* programs, the file of which lists one of them before a line it rejects, *)
(* SockServ, and the servers of ut_socket.  They share no state; a         *)
(* behaviour is one of one of them and the others stay as they begin.      *)
(***************************************************************************)
EXTENDS AppManager

CONSTANTS airplay, sockserv,                 \* programs
          MaxConns, MaxFd,                  \* SockServ
          SockPeers, NoPeer, Kinds, Size, MaxAsks \* UtSocket

MCApps == {airplay, sockserv}
MCConf == <<airplay, BadLine, sockserv>>

\* The servers, but un_epoll_tcp_server and un_select_tcp_server, the two local
\* tcp ones, which do not read what is asked.
MCKinds == {k \in [waits : {"epoll", "select"}, local : BOOLEAN, udp : BOOLEAN] :
              k.local => k.udp}

VARIABLES which,
          peer, want, cl, clients, pc, file, fdt, readfds, main, crossed, foreign,
          kind, backlog, other, asked, asks, interest, conn_a, nReady, ready, at

http == <<peer, want, cl, clients, pc, file, fdt, readfds, main, crossed, foreign>>
sockets == <<kind, backlog, other, asked, asks, interest, conn_a, nReady, ready, at>>

S == INSTANCE SockServ
U == INSTANCE UtSocket WITH peer <- other, Conns <- SockPeers, None <- NoPeer

ASSUME InstanceAssumption == S!FdBounds /\ U!ServerBounds

all == <<which, vars, http, sockets>>

ServicesInit ==
    /\ which \in {"AppManager", "SockServ", "ut_socket"}
    /\ Init /\ S!Init /\ U!Init
    /\ (which # "ut_socket" => kind = CHOOSE k \in Kinds : TRUE)

\* A step of one program.
Manager(A) == which = "AppManager" /\ A /\ UNCHANGED <<which, http, sockets>>
Http(A)    == which = "SockServ" /\ A /\ UNCHANGED <<which, vars, sockets>>
Socket(A)  == which = "ut_socket" /\ A /\ UNCHANGED <<which, vars, http>>

ServicesNext == Manager(Next) \/ Http(S!Next) \/ Socket(U!Next)

\* The fairness of the modules.  As which is constant, the fairness of one
\* action of each is that of their disjunction.
ServicesSpec ==
    /\ ServicesInit /\ [][ServicesNext]_all
    /\ WF_all(Manager(Boot) \/ Http(S!Main) \/ Socket(U!Serves))
    /\ WF_all(Manager(Serve) \/ Http(S!Handler(1)))
    /\ WF_all(Manager(Exit) \/ Http(S!Handler(2)))
    /\ WF_all(Manager(MonitorAll)) /\ WF_all(Manager(JobStep))
    /\ \A a \in Apps : /\ WF_all(Manager(Appear(a) \/ Vanish(a)))
                       /\ WF_all(Manager(Dies(a)))

-----------------------------------------------------------------------------
(* The properties of the modules, but Supervises, which keeps its name.     *)

\* Every variable keeps its type, in each of the programs.
TypesOK == TypeOK /\ S!TypeOK /\ U!TypeOK

\* SockServ closes and deletes only what is its own and over, and it and the
\* servers of ut_socket watch just the connections that wait to be served.
SocketsAreKept ==
    /\ S!ClosesItsOwn /\ S!WaitingAreSelected /\ S!DeletesNoRunning
    /\ U!TableIsWatched

\* AppManager notices a program that is down; SockServ serves a client that asks,
\* and deletes one that is finished when the next one asks; ut_socket reads what
\* a peer sends, however the others come and go.
ServicesProgress ==
    /\ which = "AppManager" => DownIsNoticed
    /\ which = "SockServ" => S!AskedIsHandled
    /\ which = "SockServ" => S!FinishedIsReaped
    /\ which = "ut_socket" => U!AskedIsRead
=============================================================================
