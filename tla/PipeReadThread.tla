--------------------------- MODULE PipeReadThread ---------------------------
(***************************************************************************)
(* src/src/epoll_reader.cpp: the thread that takes descriptors out of the  *)
(* pipe, registers them with an epoll instance of its own and reads what   *)
(* the peers send.  rpc names the part of ReadPipe() that comes next.      *)
(***************************************************************************)
EXTENDS Kernel

CONSTANTS
    BufSize,    \* what read(fd, buf, 1024) takes at most
    MaxEvents   \* the third argument of epoll_wait(), 1024

ASSUME ReaderAssumption ==
    BufSize \in Nat \ {0} /\ MaxEvents \in Nat \ {0}

VARIABLES
    rpc,        \* where the thread is
    msgfd,      \* msg.fd, while the message is being handled
    batch       \* events[i .. nfds - 1]: the events not handled yet

readerVars == <<rpc, msgfd, batch>>

Events == [fd : FD, mask : {"in", "err"}]

ReaderTypeOK ==
    /\ rpc \in {"create", "pipe", "add", "wait", "events", "done", "exit"}
    /\ msgfd \in FD \cup {NoFd}
    /\ batch \subseteq Events

ReaderInit ==
    /\ rpc = "create"
    /\ msgfd = NoFd
    /\ batch = {}

-----------------------------------------------------------------------------

ReaderCreateEpoll ==
    /\ rpc = "create"
    /\ rpc' \in {"pipe", "done"}
    /\ UNCHANGED <<msgfd, batch, kernelVars>>

\* The read end is non-blocking: on an empty pipe the loop spins.  A message
\* is written and read in one piece, so it is never short; a descriptor that
\* is not positive ends the thread.
ReadMsg ==
    /\ rpc = "pipe"
    /\ pipe # <<>>
    /\ pipe' = Tail(pipe)
    /\ IF Head(pipe) <= 0
       THEN rpc' = "done" /\ UNCHANGED msgfd
       ELSE rpc' = "add" /\ msgfd' = Head(pipe)
    /\ UNCHANGED <<batch, link, rx, listener, listenEdge, acceptq, file,
                   interest, edge>>

\* epoll_ctl(EPOLL_CTL_ADD) on msg.fd succeeds: a descriptor that is ready at
\* this moment goes onto the ready list at once.
Register ==
    /\ msgfd \notin interest
    /\ interest' = interest \cup {msgfd}
    /\ edge' = IF Mask(file[msgfd]) = "none" THEN edge ELSE edge \cup {msgfd}
    /\ UNCHANGED <<link, rx, file>>

\* SetNoBlocking(f) returns: fcntl() fails on a descriptor that is not open, and
\* exit(1) then ends the process with all its threads.
SetNoBlocking(f) == file[f] # NoClient

\* Mutant of AddFd: the close() after a failing epoll_ctl() is missing.
AddFdLeaky ==
    /\ rpc = "add"
    /\ rpc' = "wait"
    /\ msgfd' = NoFd
    /\ Register \/ UNCHANGED <<link, rx, file, interest, edge>>
    /\ UNCHANGED <<batch, listener, listenEdge, acceptq, pipe>>

\* SetNoBlocking(msg.fd), then epoll_ctl().  When epoll_ctl() fails, for want
\* of memory or because the descriptor is registered already, the descriptor
\* is closed.
AddFd ==
    /\ rpc = "add"
    /\ IF SetNoBlocking(msgfd)
       THEN rpc' = "wait" /\ msgfd' = NoFd /\ (Register \/ CloseFd(msgfd))
       ELSE rpc' = "exit" /\ UNCHANGED <<msgfd, link, rx, file, interest, edge>>
    /\ UNCHANGED <<batch, listener, listenEdge, acceptq, pipe>>

\* The descriptors epoll_wait() has something to report for.
Ready == {f \in edge : Mask(file[f]) # "none"}

\* epoll_wait() fills the array up to maxevents and takes what it reports,
\* and what is no longer ready, off the ready list.
EpollWait ==
    /\ rpc = "wait"
    /\ Ready # {}
    /\ \E S \in SUBSET Ready :
          /\ Cardinality(S) <= MaxEvents
          /\ S = Ready \/ Cardinality(S) = MaxEvents
          /\ batch' = {[fd |-> f, mask |-> Mask(file[f])] : f \in S}
          /\ edge' = Ready \ S
    /\ rpc' = "events"
    /\ UNCHANGED <<msgfd, link, rx, listener, listenEdge, acceptq, file,
                   interest, pipe>>

\* Mutant of EpollTimeout: a time-out of -1, epoll_wait() waits for an event.
EpollTimeoutNever == FALSE

\* Nothing within 500 ms.
EpollTimeout ==
    /\ rpc = "wait"
    /\ Ready = {}
    /\ edge' = {}
    /\ rpc' = "pipe"
    /\ UNCHANGED <<msgfd, batch, link, rx, listener, listenEdge, acceptq, file,
                   interest, pipe>>

-----------------------------------------------------------------------------
(* The handling of one event e.                                            *)

\* The loop goes on with the events left, or is over.
NextEvent(left) ==
    /\ batch' = left
    /\ rpc' = IF left = {} THEN "pipe" ELSE "events"

\* Mutant of HandleData: read() is repeated for the same event.
HandleDataAgain(e) ==
    /\ e.mask = "in"
    /\ rx[file[e.fd]] > 0
    /\ ReadConn(file[e.fd], BufSize)
    /\ NextEvent(batch)
    /\ UNCHANGED <<msgfd, listener, listenEdge, acceptq, file, interest, edge,
                   pipe>>

\* One read() per event: what does not fit into the buffer stays behind.
HandleData(e) ==
    /\ e.mask = "in"
    /\ rx[file[e.fd]] > 0
    /\ ReadConn(file[e.fd], BufSize)
    /\ NextEvent(batch \ {e})
    /\ UNCHANGED <<msgfd, listener, listenEdge, acceptq, file, interest, edge,
                   pipe>>

\* read() fails, with EAGAIN or with the peer's error: break.
HandleError(e) ==
    /\ e.mask = "in"
    /\ rx[file[e.fd]] = 0
    /\ link[file[e.fd]] \in {"open", "rst", "err"}
    /\ ReadConn(file[e.fd], BufSize)
    /\ NextEvent({})
    /\ UNCHANGED <<msgfd, listener, listenEdge, acceptq, file, interest, edge,
                   pipe>>

\* read() returns 0: close and break.
HandleEof(e) ==
    /\ e.mask = "in"
    /\ rx[file[e.fd]] = 0
    /\ link[file[e.fd]] \in {"fin", "gone"}
    /\ CloseFd(e.fd)
    /\ NextEvent({})
    /\ UNCHANGED <<msgfd, listener, listenEdge, acceptq, pipe>>

\* EPOLLERR or EPOLLHUP without EPOLLIN: close and go on.
HandleHup(e) ==
    /\ e.mask = "err"
    /\ CloseFd(e.fd)
    /\ NextEvent(batch \ {e})
    /\ UNCHANGED <<msgfd, listener, listenEdge, acceptq, pipe>>

HandleEvent ==
    /\ rpc = "events"
    /\ \E e \in batch :
          HandleData(e) \/ HandleError(e) \/ HandleEof(e) \/ HandleHup(e)

Reader ==
    \/ ReaderCreateEpoll \/ ReadMsg \/ AddFd
    \/ EpollWait \/ EpollTimeout \/ HandleEvent

=============================================================================
