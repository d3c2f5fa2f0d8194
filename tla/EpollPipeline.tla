---------------------------- MODULE EpollPipeline ----------------------------
(***************************************************************************)
(* TestEpoll() of base/main.cpp: one EpollServer and one PipeReadThread in *)
(* one process, joined by a pipe, with the peers that connect to them.     *)
(***************************************************************************)
EXTENDS EpollServer, PipeReadThread

vars == <<kernelVars, serverVars, readerVars>>

Init == KernelInit /\ ServerInit /\ ReaderInit

\* exit() stops both threads.
Next ==
    /\ rpc # "exit"
    /\ \/ Server /\ UNCHANGED readerVars
       \/ Reader /\ UNCHANGED serverVars
       \/ \E c \in Client : Peer(c) /\ UNCHANGED <<serverVars, readerVars>>

Spec == Init /\ [][Next]_vars

\* The operating system runs both threads; nothing is asked of the peers.
FairSpec ==
    /\ Spec
    /\ WF_vars(Server /\ UNCHANGED readerVars)
    /\ WF_vars(Reader /\ UNCHANGED serverVars)

-----------------------------------------------------------------------------
(* Safety.                                                                 *)

TypeOK == KernelTypeOK /\ ServerTypeOK /\ ReaderTypeOK

\* The descriptors the accept thread, the pipe and the reader hold.
ServerHolds == {acceptfd} \ {NoFd}
PipeHolds == Range(pipe)
ReaderHolds == ({msgfd} \ {NoFd}) \cup interest

\* Every open descriptor is held by exactly one of the accept thread, the
\* pipe and the reader, and each message in the pipe carries a different one:
\* the hand-over through write() and read() of the pipe neither shares a
\* descriptor nor loses one, whatever fails on the way and however soon a
\* closed number is given out again by accept().
Ownership ==
    /\ OpenFds = ServerHolds \cup PipeHolds \cup ReaderHolds
    /\ ServerHolds \cap PipeHolds = {}
    /\ ServerHolds \cap ReaderHolds = {}
    /\ PipeHolds \cap ReaderHolds = {}
    /\ msgfd \notin interest
    /\ IsInjective(pipe)

\* An event that the reader is about to handle is for a descriptor that is
\* still registered, and still has what epoll_wait() reported: no connection
\* was closed, drained or replaced between epoll_wait() and the read(), so
\* the EAGAIN branch of the code is never taken.
EventsAreCurrent ==
    \A e \in batch : e.fd \in interest /\
        (e.mask = "in" => Mask(file[e.fd]) = "in") /\ Mask(file[e.fd]) # "none"

\* The exit(1) in the reader's SetNoBlocking() is never reached: the
\* descriptor of a message is open when the reader acts on it, although the
\* thread that accepted it has the right to close it (write() failing) and
\* numbers are reused.
NeverExits == rpc # "exit"

\* Whichever step of the set-up fails, the accept thread ends with neither its
\* epoll instance nor its listening socket left open, and nobody can connect.
StopsClean ==
    spc = "done" => /\ serverFds = {}
                    /\ listener = "off" /\ acceptq = <<>>

\* A number that is on its way to the reader, or registered by it, keeps
\* naming the same connection until the reader itself closes it.
HandOverKeepsConnection ==
    [][\A f \in PipeHolds \cup ReaderHolds :
          f \in PipeHolds' \cup ReaderHolds' => file'[f] = file[f]]_vars

\* The connection a descriptor names, for a variable that may hold none.
Named(f) == IF f = NoFd THEN NoClient ELSE file[f]

Life ==
    INSTANCE ConnectionLife WITH
        Nobody <- NoClient,
        waiting <- acceptq,
        accepted <- Named(acceptfd),
        passing <- [i \in DOMAIN pipe |-> file[pipe[i]]],
        taken <- Named(msgfd),
        watched <- {file[f] : f \in interest},
        closed <- {c \in Client : link[c] = "closed"}

\* To pass descriptor numbers from thread to thread, while they are closed and
\* given out again, is as good as passing the connections themselves: each one
\* gets to the reader once and in the order of arrival, and none is closed
\* but by the thread that has it.
PassesConnections == Life!Spec

-----------------------------------------------------------------------------
(* Liveness, under FairSpec.                                               *)

\* The accept thread blocked on a full pipe gets its message through, unless
\* the reader could not start: the reader never waits for the accept thread.
WriterUnblocks == (spc = "write") ~> (spc = "wait" \/ rpc = "done")

\* A connection in the pipe reaches the reader, which registers or closes it.
Delivered ==
    \A c \in Client :
        (\E f \in PipeHolds : file[f] = c) ~>
            ((\E f \in interest : file[f] = c) \/ link[c] = "closed" \/ rpc = "done")

=============================================================================
