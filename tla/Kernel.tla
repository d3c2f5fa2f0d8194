------------------------------- MODULE Kernel -------------------------------
(***************************************************************************)
(* The part of Linux that the two epoll threads of the program share: TCP  *)
(* connections, the accept queue of the listening socket, the process's    *)
(* table of accepted descriptors, the epoll instance of PipeReadThread and *)
(* the pipe between the threads.  None of it is under src/: it is modelled *)
(* from the system calls that src/src/epoll_server.cpp and                 *)
(* src/src/epoll_reader.cpp make.                                          *)
(*                                                                         *)
(* A connection is named by the client that opened it; a client connects   *)
(* once.  Data is counted, not carried: rx[c] is the number of unread      *)
(* units in the receive buffer of c's connection.                          *)
(***************************************************************************)
EXTENDS Integers, Sequences, FiniteSets, Functions

CONSTANTS
    Client,     \* the peers that may connect
    NoClient,   \* "this descriptor is not open"
    FD,         \* the descriptor numbers left for accepted connections
    NoFd,       \* "this variable holds no descriptor"
    Backlog,    \* the second argument of listen(), m_backlog
    RcvBuf      \* units of data a receive buffer holds

ASSUME KernelAssumption ==
    /\ NoClient \notin Client
    /\ FD \subseteq Nat \ {0}
    /\ NoFd \notin FD
    /\ Backlog \in Nat
    /\ RcvBuf \in Nat \ {0}

VARIABLES
    link,        \* link[c]: what the server's kernel knows of connection c
    rx,          \* rx[c]: unread units received from c
    listener,    \* the listening socket: "off", on the "port" or on "other"
    listenEdge,  \* it is on the ready list of EpollServer's epoll instance
    acceptq,     \* connections completed and not accepted, oldest first
    file,        \* file[f]: the connection open on descriptor f
    interest,    \* descriptors registered with PipeReadThread's epoll
    edge,        \* those of them on its ready list
    pipe         \* the descriptors carried by the messages in the pipe

kernelVars ==
    <<link, rx, listener, listenEdge, acceptq, file, interest, edge, pipe>>

\* "rst": a reset that no read has reported; "err": an error that epoll
\* reports as EPOLLERR or EPOLLHUP without EPOLLIN; "gone": the error was
\* reported, reads return 0; "closed": the server closed its descriptor.
Links == {"idle", "open", "fin", "rst", "err", "gone", "closed"}

KernelTypeOK ==
    /\ link \in [Client -> Links]
    /\ rx \in [Client -> 0..RcvBuf]
    /\ listener \in {"off", "port", "other"}
    /\ listenEdge \in BOOLEAN
    /\ acceptq \in Seq(Client)
    /\ file \in [FD -> Client \cup {NoClient}]
    /\ interest \subseteq FD
    /\ edge \subseteq interest
    /\ pipe \in Seq(FD)

KernelInit ==
    /\ link = [c \in Client |-> "idle"]
    /\ rx = [c \in Client |-> 0]
    /\ listener = "off"
    /\ listenEdge = FALSE
    /\ acceptq = <<>>
    /\ file = [f \in FD |-> NoClient]
    /\ interest = {}
    /\ edge = {}
    /\ pipe = <<>>

-----------------------------------------------------------------------------
(* What the system calls see.                                              *)

OpenFds == {f \in FD : file[f] # NoClient}

FreeFds == {f \in FD : file[f] = NoClient}

\* read() on the connection returns without blocking.
Readable(c) == rx[c] > 0 \/ link[c] \in {"fin", "rst", "err", "gone"}

\* The event that epoll_wait reports for connection c.
Mask(c) ==
    IF rx[c] > 0 \/ link[c] \in {"fin", "rst", "gone"} THEN "in"
    ELSE IF link[c] = "err" THEN "err" ELSE "none"

\* The units that a read() of at most n takes.
Taken(c, n) == IF rx[c] < n THEN rx[c] ELSE n

\* read() of at most n units: the data that is there, else the error, once.
ReadConn(c, n) ==
    /\ rx' = [rx EXCEPT ![c] = @ - Taken(c, n)]
    /\ link' = [link EXCEPT ![c] =
                   IF rx[c] = 0 /\ @ \in {"rst", "err"} THEN "gone" ELSE @]

\* close(f): the connection ends and its epoll registration with it.
CloseFd(f) ==
    /\ file' = [file EXCEPT ![f] = NoClient]
    /\ link' = [c \in Client |-> IF c = file[f] THEN "closed" ELSE link[c]]
    /\ rx' = [c \in Client |-> IF c = file[f] THEN 0 ELSE rx[c]]
    /\ interest' = interest \ {f}
    /\ edge' = edge \ {f}

-----------------------------------------------------------------------------
(* The peers.                                                              *)

\* Something happened on connection c: an edge if its descriptor is watched.
Wake(c) == edge' = edge \cup {f \in interest : file[f] = c}

\* A connection to the configured port is completed while the queue has
\* room (Linux admits one more than the backlog).
Connect(c) ==
    /\ link[c] = "idle"
    /\ listener = "port"
    /\ Len(acceptq) <= Backlog
    /\ link' = [link EXCEPT ![c] = "open"]
    /\ acceptq' = Append(acceptq, c)
    /\ listenEdge' = TRUE
    /\ UNCHANGED <<rx, listener, file, interest, edge, pipe>>

PeerSend(c) ==
    /\ link[c] = "open"
    /\ rx[c] < RcvBuf
    /\ rx' = [rx EXCEPT ![c] = @ + 1]
    /\ Wake(c)
    /\ UNCHANGED <<link, listener, listenEdge, acceptq, file, interest, pipe>>

PeerEnd(c, from, to) ==
    /\ link[c] \in from
    /\ link' = [link EXCEPT ![c] = to]
    /\ Wake(c)
    /\ UNCHANGED <<rx, listener, listenEdge, acceptq, file, interest, pipe>>

PeerClose(c) == PeerEnd(c, {"open"}, "fin")

PeerReset(c) == PeerEnd(c, {"open", "fin"}, "rst")

PeerError(c) == PeerEnd(c, {"open"}, "err")

Peer(c) ==
    Connect(c) \/ PeerSend(c) \/ PeerClose(c) \/ PeerReset(c) \/ PeerError(c)

=============================================================================
