----------------------------- MODULE TcpServer -----------------------------
(***************************************************************************)
(* tornado::TcpServer (src/tornado/TcpServer.h, TcpServer.cpp) in an IOLoop, *)
(* with the signal handler that stops it (Web.cpp, Application).  The rest   *)
(* of the process is what handleStream makes of the connections: it keeps    *)
(* one and reads it until it closes it, or drops it.                        *)
(*                                                                         *)
(* A descriptor is a number: what the kernel has behind it is `file`, and a  *)
(* closed number is given out again.  `at` says where the server's code is;  *)
(* a call it makes of the loop or the kernel is one step.                    *)
(***************************************************************************)
EXTENDS IOLoop

CONSTANT MaxConnections   \* bound: connections that clients make

ASSUME TcpServerAssumption ==
    /\ MaxConnections \in Nat
    /\ None \notin FDs

VARIABLES
    socket_,   \* TcpServer::socket_, None for -1
    at,        \* where the server's code is
    then,      \* where stop() goes back to
    accepted,  \* handleConnection's local fd
    file,      \* kernel: what is open under each descriptor
    owner,     \* whose callback handlers_[fd].cb is
    arrived,   \* kernel: connections that have been established, ever
    taken,     \* kernel: those that have left the backlog
    sigterm,   \* whether SIGTERM is pending
    aborted    \* the assert that has failed, or "no"

tcpVars == <<socket_, at, then, accepted, file, owner, arrived, taken, sigterm,
             aborted>>
allVars == <<vars, tcpVars>>

Files == {"closed", "signal", "socket", "listening", "connection"}

TcpInit ==
    /\ Init
    /\ socket_ = None
    /\ at = "idle"
    /\ then = "idle"
    /\ accepted = None
    /\ file = [fd \in FDs |-> "closed"]
    /\ owner = [fd \in FDs |-> "none"]
    /\ arrived = 0
    /\ taken = 0
    /\ sigterm = FALSE
    /\ aborted = "no"

Goes(place) == at' = place

InMain == frame = "main" /\ at = "idle" /\ aborted = "no"

Free == {fd \in FDs : file[fd] = "closed"}

Opens(fd, what) == file' = [file EXCEPT ![fd] = what]

\* close(fd): the kernel forgets it, epoll too; what was not accepted is reset.
Close(fd) ==
    /\ file' = [file EXCEPT ![fd] = "closed"]
    /\ ready' = [ready EXCEPT ![fd] = {}]
    /\ interest' = [f \in Watched \ {fd} |-> interest[f]]
    /\ taken' = IF file[fd] = "listening" THEN arrived ELSE taken
    /\ UNCHANGED <<loopVars, clock, rdlist, tqVars>>

-----------------------------------------------------------------------------
(* listen(), in main()                                                     *)

ListenSocket ==
    /\ InMain
    /\ \/ /\ socket_ # None
          /\ aborted' = "listen"
          /\ UNCHANGED <<socket_, at, file>>
       \/ /\ socket_ = None
          /\ \E fd \in Free : socket_' = fd /\ Opens(fd, "socket")
          /\ Goes("bind")
          /\ UNCHANGED aborted
    /\ UNCHANGED <<vars, then, accepted, owner, arrived, taken, sigterm>>

\* One that fails returns -1 and leaves socket_ as it is.
BindAndListen ==
    /\ at = "bind"
    /\ \/ /\ Opens(socket_, "listening")
          /\ Goes("register")
       \/ /\ Goes("idle")
          /\ UNCHANGED file
    /\ UNCHANGED <<vars, socket_, then, accepted, owner, arrived, taken, sigterm, aborted>>

\* Mutant of RegisterSocket: for errors only.
RegisterSocketDeaf ==
    /\ at = "register"
    /\ AddHandler(socket_, {}, TRUE)
    /\ owner' = [owner EXCEPT ![socket_] = "server"]
    /\ Goes("idle")
    /\ UNCHANGED <<socket_, then, accepted, file, arrived, taken, sigterm, aborted>>

\* The result of addHandler is not looked at.
RegisterSocket ==
    /\ at = "register"
    /\ \E watched \in BOOLEAN : AddHandler(socket_, {"READ"}, watched)
    /\ owner' = [owner EXCEPT ![socket_] = "server"]
    /\ Goes("idle")
    /\ UNCHANGED <<socket_, then, accepted, file, arrived, taken, sigterm, aborted>>

\* main() has SIGTERM stop the server, and starts the loop.
RegisterSignal ==
    /\ InMain
    /\ \A fd \in FDs : file[fd] # "signal"
    /\ \E fd \in Free :
          /\ AddSignalHandler(fd)
          /\ Opens(fd, "signal")
          /\ owner' = [owner EXCEPT ![fd] = "signal"]
    /\ UNCHANGED <<socket_, at, then, accepted, arrived, taken, sigterm, aborted>>

StartServer == InMain /\ Start /\ UNCHANGED tcpVars

-----------------------------------------------------------------------------
(* stop(), from main(), the destructor or the signal handler               *)

StopServer ==
    /\ InMain
    /\ then' = "idle"
    /\ Goes("stop")
    /\ UNCHANGED <<vars, socket_, accepted, file, owner, arrived, taken, sigterm, aborted>>

\* Mutant of SignalHandler: the server is not stopped.
SignalHandlerOnly ==
    /\ frame = "handler" /\ at = "idle" /\ owner[current] = "signal"
    /\ RemoveHandler(current)
    /\ Goes("return")
    /\ UNCHANGED <<socket_, then, accepted, file, owner, arrived, taken, sigterm, aborted>>

\* signal_handler_stop.
SignalHandler ==
    /\ frame = "handler" /\ at = "idle" /\ owner[current] = "signal"
    /\ RemoveHandler(current)
    /\ then' = "return"
    /\ Goes("stop")
    /\ UNCHANGED <<socket_, accepted, file, owner, arrived, taken, sigterm, aborted>>

\* Mutant of StopRemoves: the handler stays with the descriptor.
StopRemovesNot ==
    /\ at = "stop"
    /\ UNCHANGED vars
    /\ Goes(IF socket_ = None THEN then ELSE "close")
    /\ UNCHANGED <<socket_, then, accepted, file, owner, arrived, taken, sigterm, aborted>>

\* The handler goes first, if there is one.
StopRemoves ==
    /\ at = "stop"
    /\ IF socket_ \in handlers THEN RemoveHandler(socket_) ELSE UNCHANGED vars
    /\ Goes(IF socket_ = None THEN then ELSE "close")
    /\ UNCHANGED <<socket_, then, accepted, file, owner, arrived, taken, sigterm, aborted>>

StopCloses ==
    /\ at = "close"
    /\ Close(socket_)
    /\ socket_' = None
    /\ Goes(then)
    /\ UNCHANGED <<then, accepted, owner, arrived, sigterm, aborted>>

-----------------------------------------------------------------------------
(* handleConnection                                                        *)

HandleConnection ==
    /\ frame = "handler" /\ at = "idle" /\ owner[current] = "server"
    /\ IF socket_ = current THEN Goes("accept") /\ UNCHANGED aborted
       ELSE aborted' = "socket" /\ UNCHANGED at
    /\ UNCHANGED <<vars, socket_, then, accepted, file, owner, arrived, taken, sigterm>>

Backlog == arrived - taken

\* A connection leaves the backlog, which is readable while there are others.
Takes ==
    /\ taken' = taken + 1
    /\ ready' = IF Backlog = 1 THEN [ready EXCEPT ![socket_] = {}] ELSE ready
    /\ UNCHANGED <<loopVars, clock, interest, rdlist, tqVars>>

\* Nothing to accept (somebody else's wakeup), or no descriptor for it (EMFILE):
\* back to the loop, which is told again at once in the second case.
AcceptFails ==
    /\ at = "accept"
    /\ Backlog = 0 \/ Free = {}
    /\ Goes("return")
    /\ UNCHANGED <<vars, socket_, then, accepted, file, owner, arrived, taken, sigterm, aborted>>

\* ECONNABORTED: the client has gone, the next one is tried.
AcceptAborted ==
    /\ at = "accept"
    /\ Backlog > 0
    /\ Takes
    /\ UNCHANGED <<socket_, at, then, accepted, file, owner, arrived, sigterm, aborted>>

Accept ==
    /\ at = "accept"
    /\ Backlog > 0
    /\ Takes
    /\ \E fd \in Free : accepted' = fd /\ Opens(fd, "connection")
    /\ Goes("stream")
    /\ UNCHANGED <<socket_, then, owner, arrived, sigterm, aborted>>

-----------------------------------------------------------------------------
(* External: what handleStream and the stream do, as in IOStream.          *)

StreamKept ==
    /\ at = "stream"
    /\ AddHandler(accepted, {"READ"}, TRUE)
    /\ owner' = [owner EXCEPT ![accepted] = "stream"]
    /\ Goes("return")
    /\ UNCHANGED <<socket_, then, accepted, file, arrived, taken, sigterm, aborted>>

StreamDropped ==
    /\ at = "stream"
    /\ Close(accepted)
    /\ Goes("return")
    /\ UNCHANGED <<socket_, then, accepted, owner, arrived, sigterm, aborted>>

StreamReads ==
    /\ frame = "handler" /\ at = "idle" /\ owner[current] = "stream"
    /\ \/ RemoveHandler(current) /\ Goes("streamClose")
       \/ Drain(current) /\ Goes("return")
    /\ UNCHANGED <<socket_, then, accepted, file, owner, arrived, taken, sigterm, aborted>>

StreamCloses ==
    /\ at = "streamClose"
    /\ Close(current)
    /\ Goes("return")
    /\ UNCHANGED <<socket_, then, accepted, owner, arrived, sigterm, aborted>>

ReturnToLoop ==
    /\ at = "return"
    /\ Return
    /\ Goes("idle")
    /\ UNCHANGED <<socket_, then, accepted, file, owner, arrived, taken, sigterm, aborted>>

-----------------------------------------------------------------------------
(* The kernel and the clients.                                             *)

Connect ==
    /\ arrived < MaxConnections
    /\ \E fd \in FDs :
          /\ file[fd] = "listening"
          /\ ready' = [ready EXCEPT ![fd] = {"READ"}]
    /\ arrived' = arrived + 1
    /\ UNCHANGED <<loopVars, clock, interest, rdlist, tqVars, socket_, at, then, accepted,
                   file, owner, taken, sigterm, aborted>>

ClientSends ==
    /\ \E fd \in FDs : file[fd] = "connection" /\ BecomesReady(fd, "READ")
    /\ UNCHANGED tcpVars

Sigterm ==
    /\ ~sigterm
    /\ \E fd \in FDs :
          /\ file[fd] = "signal"
          /\ ready' = [ready EXCEPT ![fd] = {"READ"}]
    /\ sigterm' = TRUE
    /\ UNCHANGED <<loopVars, clock, interest, rdlist, tqVars, socket_, at, then, accepted,
                   file, owner, arrived, taken, aborted>>

-----------------------------------------------------------------------------

ServerStep ==
    \/ BindAndListen \/ RegisterSocket \/ SignalHandler \/ StopRemoves \/ StopCloses
    \/ HandleConnection \/ AcceptFails \/ AcceptAborted \/ Accept
    \/ StreamKept \/ StreamDropped \/ StreamReads \/ StreamCloses \/ ReturnToLoop

TcpNext ==
    \/ ListenSocket \/ RegisterSignal \/ StartServer \/ StopServer
    \/ ServerStep
    \/ (LoopStep \/ PollInterrupted \/ Tick) /\ UNCHANGED tcpVars
    \/ Connect \/ ClientSends \/ Sigterm

TcpSpec == TcpInit /\ [][TcpNext]_allVars

TcpFairSpec ==
    /\ TcpSpec
    /\ WF_allVars(ServerStep)
    /\ WF_allVars(LoopStep /\ UNCHANGED tcpVars)
    /\ WF_allVars(Tick /\ UNCHANGED tcpVars)

-----------------------------------------------------------------------------
(* Properties.                                                             *)

\* Whose file a handler is for.
Owns == [signal |-> {"signal"}, server |-> {"listening"}, stream |-> {"connection"}]

\* Every handler of the loop is for the open file it was registered for, when a
\* number has been closed and given out again, when listen() has failed half
\* way, and in stop() until the close; and handleConnection is called for the
\* socket the server has, as its assert says (TcpServer.cpp 25-27, 63-77, 88).
HandlersOwnTheirFiles ==
    /\ \A fd \in handlers : file[fd] \in Owns[owner[fd]]
    /\ aborted # "socket"

\* A connection in the backlog leaves it, or the server stops, or the loop ends,
\* as long as a descriptor is free for it and epoll watches the socket: one
\* accept for each event is enough, and ECONNABORTED does not lose a wakeup.
BacklogServed ==
    \A n \in 1..MaxConnections :
       (InLoop /\ arrived >= n /\ socket_ \in Watched)
          ~> (taken >= n \/ socket_ = None \/ ~InLoop \/ Free = {})

\* After SIGTERM the server no longer listens, and the loop ends once the streams
\* have closed.
SigtermStops ==
    (InLoop /\ sigterm)
       ~> (~InLoop \/ (socket_ = None /\ \E fd \in handlers : owner[fd] = "stream"))
=============================================================================
