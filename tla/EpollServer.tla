----------------------------- MODULE EpollServer -----------------------------
(***************************************************************************)
(* src/src/epoll_server.cpp: the thread that listens, accepts connections  *)
(* and hands their descriptors to PipeReadThread over a pipe.  spc names   *)
(* the system call of BindEpollRecv() that comes next.                     *)
(***************************************************************************)
EXTENDS Kernel

CONSTANTS
    PeekSize,   \* what read(acceptfd, buffer, 39) takes at most
    PipeCap     \* messages the pipe holds

ASSUME ServerAssumption == PeekSize \in Nat \ {0} /\ PipeCap \in Nat \ {0}

VARIABLES
    spc,        \* where the thread is
    serverFds,  \* those of m_epfd and m_listenfd that are open
    acceptfd    \* the accepted descriptor it holds

serverVars == <<spc, serverFds, acceptfd>>

ServerTypeOK ==
    /\ spc \in {"create", "socket", "ctl", "listen",
                "wait", "accept", "read", "write", "done"}
    /\ serverFds \subseteq {"m_epfd", "m_listenfd"}
    /\ acceptfd \in FD \cup {NoFd}

ServerInit ==
    /\ spc = "create"
    /\ serverFds = {}
    /\ acceptfd = NoFd

-----------------------------------------------------------------------------
(* Setting up.                                                             *)

\* FreeFd() and the return that follows it on every failing path.
FreeFd ==
    /\ serverFds' = {}
    /\ listener' = "off"
    /\ listenEdge' = FALSE
    /\ spc' = "done"

CreateEpoll ==
    /\ spc = "create"
    /\ \/ serverFds' = {"m_epfd"} /\ spc' = "socket"
       \/ UNCHANGED serverFds /\ spc' = "done"
    /\ UNCHANGED <<acceptfd, kernelVars>>

\* The socket with its two options; fcntl() and setsockopt() do not fail on
\* an open socket, so their exit(1) is not reached.
CreateSocket ==
    /\ spc = "socket"
    /\ \/ /\ serverFds' = serverFds \cup {"m_listenfd"}
          /\ spc' = "ctl"
          /\ UNCHANGED <<listener, listenEdge>>
       \/ FreeFd
    /\ UNCHANGED <<acceptfd, link, rx, acceptq, file, interest, edge, pipe>>

\* The socket is registered, edge-triggered, before it listens: it is ready
\* (EPOLLHUP) at that moment and goes onto the ready list at once.
SetEpollCtl ==
    /\ spc = "ctl"
    /\ \/ /\ listenEdge' = TRUE
          /\ spc' = "listen"
          /\ UNCHANGED <<serverFds, listener>>
       \/ FreeFd
    /\ UNCHANGED <<acceptfd, link, rx, acceptq, file, interest, edge, pipe>>

\* Mutant of SetListen: the failing listen() returns without FreeFd().
SetListenLeaky ==
    /\ spc = "listen"
    /\ \/ listener' \in {"port", "other"} /\ spc' = "wait"
       \/ listener' = "off" /\ spc' = "done"
    /\ UNCHANGED <<serverFds, listenEdge, acceptfd, link, rx, acceptq, file,
                   interest, edge, pipe>>

\* The result of bind() is dropped: after a failed bind() listen() succeeds
\* on a port of the kernel's choice.
SetListen ==
    /\ spc = "listen"
    /\ \/ /\ listener' \in {"port", "other"}
          /\ spc' = "wait"
          /\ UNCHANGED <<serverFds, listenEdge>>
       \/ FreeFd
    /\ UNCHANGED <<acceptfd, link, rx, acceptq, file, interest, edge, pipe>>

-----------------------------------------------------------------------------
(* The event loop.                                                         *)

\* epoll_wait() takes the listening socket off the ready list and reports
\* it if a connection is queued; a time-out goes round the loop unchanged.
WaitListen ==
    /\ spc = "wait"
    /\ listenEdge
    /\ listenEdge' = FALSE
    /\ spc' = IF acceptq = <<>> THEN "wait" ELSE "accept"
    /\ UNCHANGED <<serverFds, acceptfd, link, rx, listener, acceptq, file,
                   interest, edge, pipe>>

\* One accept() per event, on the lowest free descriptor.
Accept ==
    /\ spc = "accept"
    /\ \E f \in FreeFds :
          /\ \A g \in FreeFds : f <= g
          /\ file' = [file EXCEPT ![f] = Head(acceptq)]
          /\ acceptfd' = f
    /\ acceptq' = Tail(acceptq)
    /\ spc' = "read"
    /\ UNCHANGED <<serverFds, link, rx, listener, listenEdge, interest, edge,
                   pipe>>

\* Mutant of AcceptFails: the test acceptfd >= 0 is missing.
AcceptFailsUnnoticed ==
    /\ spc = "accept"
    /\ acceptfd' = -1
    /\ spc' = "write"
    /\ UNCHANGED <<serverFds, kernelVars>>

\* accept() fails, for want of a descriptor or of memory, now or at any time: the
\* connection stays queued, the event is spent.
AcceptFails ==
    /\ spc = "accept"
    /\ spc' = "wait"
    /\ UNCHANGED <<serverFds, acceptfd, kernelVars>>

\* The accepted descriptor is blocking: the thread stays in read() until
\* the peer sends or ends.  What it takes is printed and dropped.
ReadFirst ==
    /\ spc = "read"
    /\ Readable(file[acceptfd])
    /\ ReadConn(file[acceptfd], PeekSize)
    /\ spc' = "write"
    /\ UNCHANGED <<serverFds, acceptfd, listener, listenEdge, acceptq, file,
                   interest, edge, pipe>>

\* Mutant of WriteMsg: the result is compared with sizeof(msg), which is 16,
\* so the descriptor is closed although its message is in the pipe.
WriteMsgThenClose ==
    /\ spc = "write"
    /\ Len(pipe) < PipeCap
    /\ pipe' = Append(pipe, acceptfd)
    /\ CloseFd(acceptfd)
    /\ acceptfd' = NoFd
    /\ spc' = "wait"
    /\ UNCHANGED <<serverFds, listener, listenEdge, acceptq>>

\* The 14 bytes of a message go into the pipe at once, when there is room.
WriteMsg ==
    /\ spc = "write"
    /\ Len(pipe) < PipeCap
    /\ pipe' = Append(pipe, acceptfd)
    /\ acceptfd' = NoFd
    /\ spc' = "wait"
    /\ UNCHANGED <<serverFds, link, rx, listener, listenEdge, acceptq, file,
                   interest, edge>>

\* Mutant of WriteFails: the close(acceptfd) is missing.
WriteFailsLeaky ==
    /\ spc = "write"
    /\ Len(pipe) < PipeCap
    /\ acceptfd' = NoFd
    /\ spc' = "wait"
    /\ UNCHANGED <<serverFds, kernelVars>>

\* write() fails (it finds no memory for the message): the connection is
\* given up.  On a full pipe it does not fail, it blocks.
WriteFails ==
    /\ spc = "write"
    /\ Len(pipe) < PipeCap
    /\ CloseFd(acceptfd)
    /\ acceptfd' = NoFd
    /\ spc' = "wait"
    /\ UNCHANGED <<serverFds, listener, listenEdge, acceptq, pipe>>

Server ==
    \/ CreateEpoll \/ CreateSocket \/ SetEpollCtl \/ SetListen
    \/ WaitListen \/ Accept \/ AcceptFails
    \/ ReadFirst \/ WriteMsg \/ WriteFails

=============================================================================
