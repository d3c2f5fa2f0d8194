------------------------ MODULE EpollPipelineProofs ------------------------
(***************************************************************************)
(* Proofs that the safety properties of EpollPipeline hold for every       *)
(* number of clients and descriptors and every size of the queues.  The    *)
(* inductive invariant comes in three layers, each proved from the ones    *)
(* before: where the two threads are, which connections the descriptors    *)
(* name, and which thread owns a descriptor.  On all three rests the       *)
(* refinement: the pipeline implements ConnectionLife.                     *)
(***************************************************************************)
EXTENDS EpollPipeline, SeqLemmas

USE KernelAssumption, ServerAssumption, ReaderAssumption
    DEF KernelAssumption, ServerAssumption, ReaderAssumption

-----------------------------------------------------------------------------
(* First layer: types and control.                                         *)

\* What the program counters say about the variables next to them.
Control ==
    /\ (acceptfd # NoFd) <=> spc \in {"read", "write"}
    /\ (msgfd # NoFd) <=> rpc \in {"add", "exit"}
    /\ batch # {} => rpc = "events"
    /\ spc = "accept" => acceptq # <<>>
    /\ listener = "off" => acceptq = <<>>
    /\ spc \in {"create", "socket", "ctl", "listen", "done"} => listener = "off"
    /\ spc \in {"create", "done"} => serverFds = {}

Inv1 == TypeOK /\ Control

\* close() keeps the types.
LEMMA CloseFdType ==
    ASSUME KernelTypeOK, NEW f \in FD, CloseFd(f)
    PROVE  /\ file' \in [FD -> Client \cup {NoClient}]
           /\ link' \in [Client -> Links]
           /\ rx' \in [Client -> 0..RcvBuf]
           /\ interest' \subseteq FD
           /\ edge' \subseteq interest'
  BY DEF KernelTypeOK, CloseFd, Links

\* read() keeps the types.
LEMMA ReadConnType ==
    ASSUME KernelTypeOK, NEW c, NEW n \in Nat, ReadConn(c, n)
    PROVE  link' \in [Client -> Links] /\ rx' \in [Client -> 0..RcvBuf]
<1>1. rx' \in [Client -> 0..RcvBuf]
  <2>1. \A d \in Client : rx[d] - Taken(d, n) \in 0..RcvBuf
    BY DEF KernelTypeOK, Taken
  <2> QED BY <2>1 DEF KernelTypeOK, ReadConn
<1>2. link' \in [Client -> Links]
  BY DEF KernelTypeOK, ReadConn, Links
<1> QED BY <1>1, <1>2

\* A step of the accept thread keeps the first layer.
LEMMA ServerInv1 ==
    ASSUME Inv1, Server, UNCHANGED readerVars PROVE Inv1'
<1> USE DEF Inv1, TypeOK, ServerTypeOK, ReaderTypeOK, readerVars, Control
<1>1. CASE CreateEpoll
  BY <1>1 DEF CreateEpoll, kernelVars, KernelTypeOK
<1>2. CASE CreateSocket
  BY <1>2 DEF CreateSocket, FreeFd, KernelTypeOK
<1>3. CASE SetEpollCtl
  BY <1>3 DEF SetEpollCtl, FreeFd, KernelTypeOK
<1>4. CASE SetListen
  BY <1>4 DEF SetListen, FreeFd, KernelTypeOK
<1>5. CASE WaitListen
  BY <1>5 DEF WaitListen, KernelTypeOK
<1>6. CASE Accept
  <2>1. Head(acceptq) \in Client /\ Tail(acceptq) \in Seq(Client)
    BY <1>6, TailRange DEF Accept, KernelTypeOK
  <2>2. KernelTypeOK'
    BY <1>6, <2>1 DEF Accept, KernelTypeOK, FreeFds
  <2> QED BY <1>6, <2>2 DEF Accept, FreeFds
<1>7. CASE AcceptFails
  BY <1>7 DEF AcceptFails, kernelVars, KernelTypeOK
<1>8. CASE ReadFirst
  <2>1. link' \in [Client -> Links] /\ rx' \in [Client -> 0..RcvBuf]
    BY <1>8, ReadConnType DEF ReadFirst
  <2> QED BY <1>8, <2>1 DEF ReadFirst, KernelTypeOK
<1>9. CASE WriteMsg
  <2>1. acceptfd \in FD
    BY <1>9 DEF WriteMsg
  <2>2. pipe' \in Seq(FD)
    BY <1>9, <2>1, AppendRange DEF WriteMsg, KernelTypeOK
  <2> QED BY <1>9, <2>2 DEF WriteMsg, KernelTypeOK
<1>10. CASE WriteFails
  <2>1. acceptfd \in FD
    BY <1>10 DEF WriteFails
  <2>2. KernelTypeOK'
    BY <1>10, <2>1, CloseFdType DEF WriteFails, KernelTypeOK
  <2> QED BY <1>10, <2>2 DEF WriteFails
<1> QED
  BY <1>1, <1>2, <1>3, <1>4, <1>5, <1>6, <1>7, <1>8, <1>9, <1>10 DEF Server

\* A step of the reader keeps the first layer.
LEMMA ReaderInv1 ==
    ASSUME Inv1, Reader, UNCHANGED serverVars PROVE Inv1'
<1> USE DEF Inv1, TypeOK, ServerTypeOK, ReaderTypeOK, serverVars, Control
<1>1. CASE ReaderCreateEpoll
  BY <1>1 DEF ReaderCreateEpoll, kernelVars, KernelTypeOK
<1>2. CASE ReadMsg
  <2>1. Head(pipe) \in FD /\ pipe' \in Seq(FD)
    BY <1>2, TailRange DEF ReadMsg, KernelTypeOK
  <2>2. KernelTypeOK'
    BY <1>2, <2>1 DEF ReadMsg, KernelTypeOK
  <2>3. ~(Head(pipe) <= 0)
    <3>1. FD \subseteq Nat \ {0}
      OBVIOUS
    <3>2. Head(pipe) \in Nat \ {0}
      BY <2>1
    <3> QED BY <3>2
  <2> QED BY <1>2, <2>1, <2>2, <2>3 DEF ReadMsg
<1>3. CASE AddFd
  <2>1. msgfd \in FD
    BY <1>3 DEF AddFd, SetNoBlocking
  <2>2. CASE UNCHANGED <<link, rx, file, interest, edge>>
    BY <1>3, <2>2 DEF AddFd, SetNoBlocking, KernelTypeOK
  <2>3. CASE Register
    BY <1>3, <2>1, <2>3 DEF AddFd, SetNoBlocking, Register, KernelTypeOK
  <2>4. CASE CloseFd(msgfd)
    <3>1. KernelTypeOK'
      BY <1>3, <2>1, <2>4, CloseFdType DEF AddFd, SetNoBlocking, KernelTypeOK
    <3> QED BY <1>3, <2>4, <3>1 DEF AddFd, SetNoBlocking, KernelTypeOK
  <2> QED BY <1>3, <2>2, <2>3, <2>4 DEF AddFd, SetNoBlocking
<1>4. CASE EpollWait
  <2>1. \A f \in Ready : f \in FD /\ Mask(file[f]) \in {"in", "err"}
    BY DEF Ready, Mask, KernelTypeOK
  <2>2. PICK S \in SUBSET Ready :
           /\ batch' = {[fd |-> f, mask |-> Mask(file[f])] : f \in S}
           /\ edge' = Ready \ S
    BY <1>4 DEF EpollWait
  <2>3. batch' \subseteq Events
    BY <2>1, <2>2 DEF Events
  <2>4. edge' \subseteq interest
    BY <2>2 DEF Ready, KernelTypeOK
  <2> QED BY <1>4, <2>3, <2>4 DEF EpollWait, KernelTypeOK
<1>5. CASE EpollTimeout
  BY <1>5 DEF EpollTimeout, KernelTypeOK
<1>6. CASE HandleEvent
  <2>1. PICK e \in batch :
           HandleData(e) \/ HandleError(e) \/ HandleEof(e) \/ HandleHup(e)
    BY <1>6 DEF HandleEvent
  <2>2. e.fd \in FD
    BY DEF Events
  <2>3. ASSUME NEW left \in SUBSET batch, NextEvent(left)
        PROVE  /\ rpc' \in {"pipe", "events"}
               /\ batch' \subseteq Events
               /\ batch' # {} => rpc' = "events"
    BY <2>3 DEF NextEvent
  <2>4. CASE HandleData(e) \/ HandleError(e)
    <3>1. link' \in [Client -> Links] /\ rx' \in [Client -> 0..RcvBuf]
      BY <2>4, ReadConnType DEF HandleData, HandleError
    <3> QED
      BY <1>6, <2>3, <2>4, <3>1
      DEF HandleEvent, HandleData, HandleError, KernelTypeOK
  <2>5. CASE HandleEof(e) \/ HandleHup(e)
    <3>1. KernelTypeOK'
      BY <2>2, <2>5, CloseFdType DEF HandleEof, HandleHup, KernelTypeOK
    <3> QED
      BY <1>6, <2>3, <2>5, <3>1 DEF HandleEvent, HandleEof, HandleHup
  <2> QED BY <2>1, <2>4, <2>5
<1> QED BY <1>1, <1>2, <1>3, <1>4, <1>5, <1>6 DEF Reader

\* What a peer does keeps the first layer.
LEMMA PeerInv1 ==
    ASSUME Inv1, NEW c \in Client, Peer(c), UNCHANGED <<serverVars, readerVars>>
    PROVE  Inv1'
<1> USE DEF Inv1, TypeOK, ServerTypeOK, ReaderTypeOK, serverVars, readerVars,
            Control
<1>1. CASE Connect(c)
  <2>1. acceptq' \in Seq(Client) /\ acceptq' # <<>>
    BY <1>1, AppendProperties DEF Connect, KernelTypeOK
  <2> QED BY <1>1, <2>1 DEF Connect, KernelTypeOK, Links
<1>2. CASE PeerSend(c)
  <2>1. rx' \in [Client -> 0..RcvBuf]
    BY <1>2 DEF PeerSend, KernelTypeOK
  <2> QED BY <1>2, <2>1 DEF PeerSend, Wake, KernelTypeOK
<1>3. ASSUME NEW from, NEW to \in Links, PeerEnd(c, from, to) PROVE Inv1'
  BY <1>3 DEF PeerEnd, Wake, KernelTypeOK
<1>4. CASE PeerClose(c) \/ PeerReset(c) \/ PeerError(c)
  <2>1. {"fin", "rst", "err"} \subseteq Links
    BY DEF Links
  <2> QED BY <1>3, <1>4, <2>1 DEF PeerClose, PeerReset, PeerError
<1> QED BY <1>1, <1>2, <1>4 DEF Peer

\* The variables have their types and the program counters say what is held,
\* in every state that the two threads and the peers can bring about.
THEOREM FirstLayer == Spec => []Inv1
<1>1. Init => Inv1
  <2> SUFFICES ASSUME Init PROVE Inv1
    OBVIOUS
  <2>1. acceptq \in Seq(Client) /\ pipe \in Seq(FD)
    BY EmptySeq DEF Init, KernelInit
  <2>2. KernelTypeOK
    <3>1. 0 \in 0..RcvBuf
      OBVIOUS
    <3>2. rx \in [Client -> 0..RcvBuf]
      BY <3>1 DEF Init, KernelInit
    <3>3. link \in [Client -> Links]
      BY DEF Init, KernelInit, Links
    <3>4. file \in [FD -> Client \cup {NoClient}]
      BY DEF Init, KernelInit
    <3> QED BY <2>1, <3>2, <3>3, <3>4 DEF Init, KernelInit, KernelTypeOK
  <2>3. ServerTypeOK /\ ReaderTypeOK
    BY DEF Init, ServerInit, ReaderInit, ServerTypeOK, ReaderTypeOK
  <2>4. Control
    BY DEF Init, KernelInit, ServerInit, ReaderInit, Control
  <2> QED BY <2>2, <2>3, <2>4 DEF Inv1, TypeOK
<1>2. Inv1 /\ [Next]_vars => Inv1'
  <2> SUFFICES ASSUME Inv1, [Next]_vars PROVE Inv1'
    OBVIOUS
  <2>1. CASE Server /\ UNCHANGED readerVars
    BY <2>1, ServerInv1
  <2>2. CASE Reader /\ UNCHANGED serverVars
    BY <2>2, ReaderInv1
  <2>3. CASE \E c \in Client : Peer(c) /\ UNCHANGED <<serverVars, readerVars>>
    BY <2>3, PeerInv1
  <2>4. CASE UNCHANGED vars
    BY <2>4
    DEF vars, kernelVars, serverVars, readerVars, Inv1, TypeOK, KernelTypeOK,
        ServerTypeOK, ReaderTypeOK, Control
  <2> QED BY <2>1, <2>2, <2>3, <2>4 DEF Next
<1> QED BY <1>1, <1>2, PTL DEF Spec

\* Every variable keeps its type.
THEOREM TypeCorrect == Spec => []TypeOK
  BY FirstLayer, PTL DEF Inv1

\* Whichever step of the set-up fails, the accept thread leaves nothing open.
THEOREM AlwaysStopsClean == Spec => []StopsClean
<1>1. Inv1 => StopsClean
  BY DEF Inv1, Control, StopsClean
<1> QED BY <1>1, FirstLayer, PTL

-----------------------------------------------------------------------------
(* Second layer: the connections that the descriptors name.                *)

\* Two descriptors never name the same connection, no connection is queued
\* twice, a queued one has no descriptor yet, and one that is queued or has a
\* descriptor has been opened.
Connections ==
    /\ \A f, g \in OpenFds : file[f] = file[g] => f = g
    /\ IsInjective(acceptq)
    /\ \A c \in Range(acceptq) : link[c] # "idle" /\ \A f \in FD : file[f] # c
    /\ \A f \in OpenFds : link[file[f]] # "idle"

\* A step that accepts no connection, queues none and leaves none unopened.
SameConnections ==
    /\ acceptq' = acceptq
    /\ \A f \in FD : file'[f] \in {file[f], NoClient}
    /\ \A c \in Client : link'[c] = "idle" => link[c] = "idle"

LEMMA SameConnectionsInv ==
    ASSUME Inv1, Inv1', Connections, SameConnections PROVE Connections'
<1>1. OpenFds' \subseteq OpenFds /\ \A f \in OpenFds' : file'[f] = file[f]
  BY DEF OpenFds, SameConnections
<1>2. \A f \in OpenFds : file[f] \in Client
  BY DEF OpenFds, Inv1, TypeOK, KernelTypeOK
<1>3. Range(acceptq) \subseteq Client
  BY RangeOfSeq DEF Inv1, TypeOK, KernelTypeOK
<1>4. \A c \in Client, f \in FD : file[f] # c => file'[f] # c
  BY DEF SameConnections
<1>5. (\A f, g \in OpenFds : file[f] = file[g] => f = g)'
  BY <1>1 DEF Connections
<1>6. IsInjective(acceptq')
  BY DEF Connections, SameConnections
<1>7. (\A c \in Range(acceptq) : link[c] # "idle" /\ \A f \in FD : file[f] # c)'
  BY <1>3, <1>4 DEF Connections, SameConnections
<1>8. (\A f \in OpenFds : link[file[f]] # "idle")'
  BY <1>1, <1>2 DEF Connections, SameConnections
<1> QED BY <1>5, <1>6, <1>7, <1>8 DEF Connections

\* read() and close() end no connection back to "idle".
LEMMA ReadConnSame ==
    ASSUME Inv1, NEW c, NEW n, ReadConn(c, n), UNCHANGED <<acceptq, file>>
    PROVE  SameConnections
  BY DEF ReadConn, SameConnections, Inv1, TypeOK, KernelTypeOK

LEMMA CloseFdSame ==
    ASSUME Inv1, NEW f \in FD, CloseFd(f), UNCHANGED acceptq
    PROVE  SameConnections
  BY DEF CloseFd, SameConnections, Inv1, TypeOK, KernelTypeOK

LEMMA ServerConnections ==
    ASSUME Inv1, Inv1', Connections, Server PROVE Connections'
<1>1. CASE Accept
  <2>1. PICK f \in FreeFds : /\ file' = [file EXCEPT ![f] = Head(acceptq)]
                             /\ acceptq' = Tail(acceptq)
                             /\ link' = link
    BY <1>1 DEF Accept
  <2>2. acceptq \in Seq(Client) /\ acceptq # <<>>
    BY <1>1 DEF Accept, Inv1, TypeOK, KernelTypeOK, Control
  <2> DEFINE h == Head(acceptq)
  <2>3. /\ h \in Range(acceptq)
        /\ h \in Client
        /\ Range(acceptq) = Range(acceptq') \cup {h}
        /\ IsInjective(acceptq')
        /\ h \notin Range(acceptq')
    BY <2>1, <2>2, TailRange DEF Connections
  <2> HIDE DEF h
  <2>4. /\ \A g \in FD : file'[g] = IF g = f THEN h ELSE file[g]
        /\ f \in FD /\ file[f] = NoClient
    BY <2>1 DEF h, FreeFds, Inv1, TypeOK, KernelTypeOK
  <2>5. \A g \in OpenFds' : g = f \/ (g \in OpenFds /\ file'[g] = file[g])
    BY <2>4 DEF OpenFds
  <2>6. \A g \in FD : file[g] # h
    BY <2>3 DEF Connections
  <2>7. (\A g, k \in OpenFds : file[g] = file[k] => g = k)'
    BY <2>4, <2>5, <2>6 DEF Connections, OpenFds
  <2>8. (\A c \in Range(acceptq) :
            link[c] # "idle" /\ \A g \in FD : file[g] # c)'
    BY <2>1, <2>3, <2>4 DEF Connections
  <2>9. (\A g \in OpenFds : link[file[g]] # "idle")'
    BY <2>1, <2>3, <2>4, <2>5 DEF Connections
  <2> QED BY <2>3, <2>7, <2>8, <2>9 DEF Connections
<1>2. CASE ReadFirst
  BY <1>2, ReadConnSame, SameConnectionsInv DEF ReadFirst
<1>3. CASE WriteFails
  <2>1. acceptfd \in FD
    BY <1>3 DEF WriteFails, Inv1, TypeOK, ServerTypeOK, Control
  <2> QED BY <1>3, <2>1, CloseFdSame, SameConnectionsInv DEF WriteFails
<1>4. CASE UNCHANGED <<link, acceptq, file>>
  BY <1>4, SameConnectionsInv DEF SameConnections
<1> QED
  BY <1>1, <1>2, <1>3, <1>4
  DEF Server, CreateEpoll, CreateSocket, SetEpollCtl, SetListen, WaitListen,
      AcceptFails, WriteMsg, kernelVars

LEMMA ReaderConnections ==
    ASSUME Inv1, Inv1', Connections, Reader PROVE Connections'
<1>1. CASE AddFd /\ CloseFd(msgfd) /\ rpc' = "wait"
  <2>1. msgfd \in FD
    BY <1>1 DEF AddFd, SetNoBlocking, Inv1, TypeOK, ReaderTypeOK, Control
  <2> QED BY <1>1, <2>1, CloseFdSame, SameConnectionsInv DEF AddFd, SetNoBlocking
<1>2. ASSUME NEW e \in batch, HandleData(e) \/ HandleError(e)
      PROVE  Connections'
  BY <1>2, ReadConnSame, SameConnectionsInv DEF HandleData, HandleError
<1>3. ASSUME NEW e \in batch, HandleEof(e) \/ HandleHup(e)
      PROVE  Connections'
  <2>1. e.fd \in FD
    BY DEF Inv1, TypeOK, ReaderTypeOK, Events
  <2> QED
    BY <1>3, <2>1, CloseFdSame, SameConnectionsInv DEF HandleEof, HandleHup
<1>4. CASE UNCHANGED <<link, acceptq, file>>
  BY <1>4, SameConnectionsInv DEF SameConnections
<1> QED
  BY <1>1, <1>2, <1>3, <1>4
  DEF Reader, ReaderCreateEpoll, ReadMsg, AddFd, SetNoBlocking, Register, EpollWait,
      EpollTimeout, HandleEvent, kernelVars

LEMMA PeerConnections ==
    ASSUME Inv1, Inv1', Connections, NEW c \in Client, Peer(c)
    PROVE  Connections'
<1>1. CASE Connect(c)
  <2>1. /\ acceptq' = Append(acceptq, c)
        /\ file' = file
        /\ \A d \in Client : link'[d] = IF d = c THEN "open" ELSE link[d]
        /\ link[c] = "idle"
    BY <1>1 DEF Connect, Inv1, TypeOK, KernelTypeOK
  <2>2. c \notin Range(acceptq) /\ \A f \in OpenFds : file[f] # c
    BY <2>1 DEF Connections
  <2>3. /\ Range(acceptq') = Range(acceptq) \cup {c}
        /\ IsInjective(acceptq')
    BY <2>1, <2>2, AppendRange
    DEF Connections, Inv1, TypeOK, KernelTypeOK
  <2>4. Range(acceptq) \subseteq Client
    BY RangeOfSeq DEF Inv1, TypeOK, KernelTypeOK
  <2>5. \A f \in FD : file[f] # c
    BY <2>2 DEF OpenFds, Inv1, TypeOK, KernelTypeOK
  <2>6. (\A d \in Range(acceptq) :
            link[d] # "idle" /\ \A f \in FD : file[f] # d)'
    BY <2>1, <2>3, <2>4, <2>5 DEF Connections
  <2>7. OpenFds' = OpenFds /\ \A f \in OpenFds : file[f] \in Client
    BY <2>1 DEF OpenFds, Inv1, TypeOK, KernelTypeOK
  <2>8. (\A f \in OpenFds : link[file[f]] # "idle")'
    BY <2>1, <2>7 DEF Connections
  <2> QED BY <2>1, <2>3, <2>6, <2>7, <2>8 DEF Connections
<1>2. CASE PeerSend(c)
  BY <1>2, SameConnectionsInv DEF PeerSend, SameConnections
<1>3. ASSUME NEW from, NEW to, to # "idle", PeerEnd(c, from, to)
      PROVE  Connections'
  <2>1. SameConnections
    BY <1>3 DEF PeerEnd, SameConnections, Inv1, TypeOK, KernelTypeOK
  <2> QED BY <2>1, SameConnectionsInv
<1> QED
  BY <1>1, <1>2, <1>3 DEF Peer, PeerClose, PeerReset, PeerError

\* Two open descriptors always name different connections, and a connection
\* is accepted at most once.
THEOREM SecondLayer == Spec => []Connections
<1>1. Init => Connections
  <2>1. Range(<<>>) = {} /\ IsInjective(<<>>)
    BY DEF Range, IsInjective
  <2> QED BY <2>1 DEF Init, KernelInit, Connections, OpenFds
<1>2. Inv1 /\ Inv1' /\ Connections /\ [Next]_vars => Connections'
  <2> SUFFICES ASSUME Inv1, Inv1', Connections, [Next]_vars
               PROVE  Connections'
    OBVIOUS
  <2>1. CASE UNCHANGED vars
    BY <2>1, SameConnectionsInv DEF vars, kernelVars, SameConnections
  <2> QED
    BY <2>1, ServerConnections, ReaderConnections, PeerConnections DEF Next
<1> QED BY <1>1, <1>2, FirstLayer, PTL DEF Spec

-----------------------------------------------------------------------------
(* Third layer: which thread owns a descriptor.                            *)

\* The events left to handle are for different descriptors.
EventsDiffer == \A d, e \in batch : d.fd = e.fd => d = e

Inv3 == Ownership /\ EventsAreCurrent /\ EventsDiffer

Inv2 == Inv1 /\ Connections

\* A step that changes no descriptor and no holder.
LEMMA SameOwners ==
    ASSUME Inv1, Ownership,
           UNCHANGED <<file, acceptfd, pipe, msgfd, interest>>
    PROVE  Ownership'
  BY DEF Ownership, OpenFds, ServerHolds, PipeHolds, ReaderHolds

LEMMA ServerOwnership ==
    ASSUME Inv1, Ownership, Server, UNCHANGED readerVars PROVE Ownership'
<1> USE DEF readerVars
<1>1. CASE Accept
  <2>1. PICK f \in FreeFds : /\ file' = [file EXCEPT ![f] = Head(acceptq)]
                             /\ acceptfd' = f
                             /\ UNCHANGED <<interest, pipe>>
                             /\ acceptfd = NoFd
    BY <1>1 DEF Accept, Inv1, Control
  <2>2. Head(acceptq) # NoClient
    BY <1>1, TailRange DEF Accept, Inv1, TypeOK, KernelTypeOK, Control
  <2>3. f \in FD /\ f # NoFd /\ OpenFds' = OpenFds \cup {f} /\ f \notin OpenFds
    BY <2>1, <2>2 DEF OpenFds, FreeFds, Inv1, TypeOK, KernelTypeOK
  <2> QED
    BY <2>1, <2>3 DEF Ownership, ServerHolds, PipeHolds, ReaderHolds
<1>2. CASE WriteMsg
  <2>1. acceptfd \in FD /\ acceptfd # NoFd
    BY <1>2 DEF WriteMsg, Inv1, TypeOK, ServerTypeOK, Control
  <2>2. acceptfd \notin Range(pipe)
    BY <2>1 DEF Ownership, ServerHolds, PipeHolds
  <2>3. IsInjective(pipe') /\ Range(pipe') = Range(pipe) \cup {acceptfd}
    BY <1>2, <2>1, <2>2, AppendRange
    DEF WriteMsg, Ownership, Inv1, TypeOK, KernelTypeOK
  <2> QED
    BY <1>2, <2>1, <2>3
    DEF WriteMsg, Ownership, OpenFds, ServerHolds, PipeHolds, ReaderHolds
<1>3. CASE WriteFails
  <2>1. acceptfd \in FD /\ acceptfd # NoFd
    BY <1>3 DEF WriteFails, Inv1, TypeOK, ServerTypeOK, Control
  <2>2. OpenFds' = OpenFds \ {acceptfd}
    BY <1>3, <2>1 DEF WriteFails, CloseFd, OpenFds, Inv1, TypeOK, KernelTypeOK
  <2>3. interest' = interest
    BY <1>3, <2>1
    DEF WriteFails, CloseFd, Ownership, ServerHolds, ReaderHolds
  <2> QED
    BY <1>3, <2>1, <2>2, <2>3
    DEF WriteFails, Ownership, ServerHolds, PipeHolds, ReaderHolds
<1> QED
  BY <1>1, <1>2, <1>3, SameOwners
  DEF Server, CreateEpoll, CreateSocket, SetEpollCtl, SetListen, WaitListen,
      AcceptFails, ReadFirst, kernelVars

LEMMA ReaderOwnership ==
    ASSUME Inv1, Ownership, EventsAreCurrent, Reader, UNCHANGED serverVars
    PROVE  Ownership'
<1> USE DEF serverVars
<1>1. CASE ReadMsg
  <2>1. pipe \in Seq(FD) /\ pipe # <<>> /\ pipe' = Tail(pipe)
    BY <1>1 DEF ReadMsg, Inv1, TypeOK, KernelTypeOK
  <2> DEFINE h == Head(pipe)
  <2>2. /\ h \in FD
        /\ Range(pipe) = Range(pipe') \cup {h}
        /\ IsInjective(pipe')
        /\ h \notin Range(pipe')
    BY <2>1, TailRange DEF Ownership
  <2>3. ~(h <= 0)
    <3>1. FD \subseteq Nat \ {0}
      OBVIOUS
    <3>2. h \in Nat \ {0}
      BY <2>2, <3>1
    <3> QED BY <3>2
  <2>4. msgfd' = h /\ msgfd = NoFd /\ h # NoFd
    BY <1>1, <2>2, <2>3 DEF ReadMsg, Inv1, Control
  <2> HIDE DEF h
  <2> QED
    BY <1>1, <2>2, <2>4
    DEF ReadMsg, Ownership, OpenFds, ServerHolds, PipeHolds, ReaderHolds
<1>2. CASE AddFd
  <2>1. msgfd \in FD /\ msgfd # NoFd /\ file[msgfd] # NoClient
    BY <1>2
    DEF AddFd, SetNoBlocking, Inv1, TypeOK, ReaderTypeOK, Control, Ownership, ReaderHolds,
        OpenFds
  <2>2. CASE Register
    BY <1>2, <2>1, <2>2
    DEF AddFd, SetNoBlocking, Register, Ownership, OpenFds, ServerHolds, PipeHolds,
        ReaderHolds
  <2>3. CASE CloseFd(msgfd)
    <3>1. OpenFds' = OpenFds \ {msgfd}
      BY <2>1, <2>3 DEF CloseFd, OpenFds, Inv1, TypeOK, KernelTypeOK
    <3>2. interest' = interest
      BY <2>3 DEF CloseFd, Ownership
    <3>3. msgfd' = NoFd /\ UNCHANGED <<acceptfd, pipe>>
      BY <1>2, <2>1 DEF AddFd, SetNoBlocking
    <3>4. msgfd \notin interest \cup ServerHolds \cup PipeHolds
      BY <2>1 DEF Ownership, ReaderHolds
    <3>5. ReaderHolds' = ReaderHolds \ {msgfd}
      BY <2>1, <3>2, <3>3, <3>4 DEF ReaderHolds
    <3>6. NoFd \notin interest
      BY DEF Inv1, TypeOK, KernelTypeOK
    <3> QED
      BY <3>1, <3>2, <3>3, <3>4, <3>5, <3>6
      DEF Ownership, ServerHolds, PipeHolds
  <2> QED BY <1>2, <2>1, <2>2, <2>3 DEF AddFd, SetNoBlocking
<1>3. ASSUME NEW e \in batch, HandleEof(e) \/ HandleHup(e)
      PROVE  Ownership'
  <2>1. e.fd \in interest /\ e.fd \in FD
    BY DEF EventsAreCurrent, Inv1, TypeOK, KernelTypeOK
  <2>2. OpenFds' = OpenFds \ {e.fd} /\ interest' = interest \ {e.fd}
    BY <1>3, <2>1
    DEF HandleEof, HandleHup, CloseFd, OpenFds, Inv1, TypeOK, KernelTypeOK
  <2> QED
    BY <1>3, <2>1, <2>2
    DEF HandleEof, HandleHup, Ownership, ServerHolds, PipeHolds, ReaderHolds
<1> QED
  BY <1>1, <1>2, <1>3, SameOwners
  DEF Reader, ReaderCreateEpoll, EpollWait, EpollTimeout, HandleEvent,
      HandleData, HandleError, kernelVars

\* A step leaves the event e as current as it was.
Undisturbed(e) ==
    /\ e.fd \in interest'
    /\ file'[e.fd] = file[e.fd]
    /\ link'[file[e.fd]] = link[file[e.fd]]
    /\ rx'[file[e.fd]] = rx[file[e.fd]]

LEMMA UndisturbedEvents ==
    ASSUME EventsAreCurrent, EventsDiffer, batch' \subseteq batch,
           \A e \in batch' : Undisturbed(e)
    PROVE  EventsAreCurrent' /\ EventsDiffer'
  BY DEF EventsAreCurrent, EventsDiffer, Undisturbed, Mask

\* What is done to the connection of one descriptor does not disturb the
\* event of another.
LEMMA OtherConnection ==
    ASSUME Inv1, Connections, NEW f \in OpenFds, NEW g \in OpenFds, f # g
    PROVE  /\ file[f] # file[g]
           /\ file[g] \in Client
  BY DEF Connections, OpenFds, Inv1, TypeOK, KernelTypeOK

LEMMA ReadConnUndisturbed ==
    ASSUME Inv2, Inv3, NEW f \in OpenFds, NEW n, NEW e \in batch, e.fd # f,
           ReadConn(file[f], n), UNCHANGED <<file, interest>>
    PROVE  Undisturbed(e)
<1>1. e.fd \in interest /\ e.fd \in OpenFds
  BY DEF Inv3, EventsAreCurrent, Ownership, ReaderHolds
<1> QED
  BY <1>1, OtherConnection
  DEF ReadConn, Undisturbed, Inv2, Inv1, TypeOK, KernelTypeOK

LEMMA CloseFdUndisturbed ==
    ASSUME Inv2, Inv3, NEW f \in OpenFds, NEW e \in batch, e.fd # f,
           CloseFd(f)
    PROVE  Undisturbed(e)
<1>1. e.fd \in interest /\ e.fd \in OpenFds
  BY DEF Inv3, EventsAreCurrent, Ownership, ReaderHolds
<1> QED
  BY <1>1, OtherConnection
  DEF CloseFd, Undisturbed, Inv2, Inv1, TypeOK, KernelTypeOK

\* The events the reader has not handled stay current while the accept
\* thread runs, although that thread reads from and closes descriptors too.
LEMMA ServerEvents ==
    ASSUME Inv2, Inv3, Server, UNCHANGED readerVars
    PROVE  EventsAreCurrent' /\ EventsDiffer'
<1>1. batch' = batch
  BY DEF readerVars
<1>2. \A e \in batch : e.fd \in interest /\ e.fd \in OpenFds /\ e.fd \in FD
  BY DEF Inv3, EventsAreCurrent, Ownership, ReaderHolds, OpenFds
<1>3. spc \in {"read", "write"} =>
         acceptfd \in OpenFds /\ \A e \in batch : e.fd # acceptfd
  BY <1>2
  DEF Inv2, Inv1, Control, Inv3, Ownership, ServerHolds, ReaderHolds
<1>4. CASE Accept
  <2>1. PICK f \in FreeFds : /\ file' = [file EXCEPT ![f] = Head(acceptq)]
                             /\ UNCHANGED <<link, rx, interest>>
    BY <1>4 DEF Accept
  <2>2. \A e \in batch : e.fd # f
    BY <1>2 DEF OpenFds, FreeFds
  <2>3. \A e \in batch : Undisturbed(e)
    BY <1>2, <2>1, <2>2
    DEF Undisturbed, Inv2, Inv1, TypeOK, KernelTypeOK
  <2> QED BY <1>1, <2>3, UndisturbedEvents DEF Inv3
<1>5. CASE ReadFirst
  <2>1. \A e \in batch : Undisturbed(e)
    BY <1>3, <1>5, ReadConnUndisturbed DEF ReadFirst
  <2> QED BY <1>1, <2>1, UndisturbedEvents DEF Inv3
<1>6. CASE WriteFails
  <2>1. \A e \in batch : Undisturbed(e)
    BY <1>3, <1>6, CloseFdUndisturbed DEF WriteFails
  <2> QED BY <1>1, <2>1, UndisturbedEvents DEF Inv3
<1>7. CASE UNCHANGED <<link, rx, file, interest>>
  <2>1. \A e \in batch : Undisturbed(e)
    BY <1>2, <1>7 DEF Undisturbed
  <2> QED BY <1>1, <2>1, UndisturbedEvents DEF Inv3
<1> QED
  BY <1>4, <1>5, <1>6, <1>7
  DEF Server, CreateEpoll, CreateSocket, SetEpollCtl, SetListen, WaitListen,
      AcceptFails, WriteMsg, kernelVars

LEMMA ReaderEvents ==
    ASSUME Inv2, Inv3, Reader, UNCHANGED serverVars
    PROVE  EventsAreCurrent' /\ EventsDiffer'
<1>1. CASE batch' = {}
  BY <1>1 DEF EventsAreCurrent, EventsDiffer
<1>2. CASE EpollWait
  <2>1. PICK S \in SUBSET Ready :
           batch' = {[fd |-> f, mask |-> Mask(file[f])] : f \in S}
    BY <1>2 DEF EpollWait
  <2>2. UNCHANGED <<link, rx, file, interest>>
    BY <1>2 DEF EpollWait
  <2>3. \A f \in Ready : f \in interest /\ Mask(file[f]) # "none"
    BY DEF Ready, Inv2, Inv1, TypeOK, KernelTypeOK
  <2>4. \A f \in FD : Mask(file[f])' = Mask(file[f])
    BY <2>2 DEF Mask
  <2>5. interest \subseteq FD
    BY DEF Inv2, Inv1, TypeOK, KernelTypeOK
  <2>6. \A e \in batch' : /\ e.fd \in interest
                          /\ e.mask = Mask(file[e.fd])
                          /\ Mask(file[e.fd]) # "none"
    BY <2>1, <2>3
  <2>7. EventsAreCurrent'
    BY <2>2, <2>4, <2>5, <2>6 DEF EventsAreCurrent
  <2>8. EventsDiffer'
    BY <2>1 DEF EventsDiffer
  <2> QED BY <2>7, <2>8
<1>3. ASSUME NEW e \in batch, HandleData(e) \/ HandleHup(e)
      PROVE  EventsAreCurrent' /\ EventsDiffer'
  <2>1. e.fd \in OpenFds
    BY DEF Inv3, EventsAreCurrent, Ownership, ReaderHolds
  <2>2. \A d \in batch' : d \in batch /\ d.fd # e.fd
    BY <1>3 DEF HandleData, HandleHup, NextEvent, Inv3, EventsDiffer
  <2>3. CASE HandleData(e)
    <3>1. \A d \in batch' : Undisturbed(d)
      BY <2>1, <2>2, <2>3, ReadConnUndisturbed DEF HandleData
    <3> QED BY <2>2, <3>1, UndisturbedEvents DEF Inv3
  <2>4. CASE HandleHup(e)
    <3>1. \A d \in batch' : Undisturbed(d)
      BY <2>1, <2>2, <2>4, CloseFdUndisturbed DEF HandleHup
    <3> QED BY <2>2, <3>1, UndisturbedEvents DEF Inv3
  <2> QED BY <1>3, <2>3, <2>4
<1>4. CASE HandleEvent
  <2>1. PICK e \in batch :
           HandleData(e) \/ HandleError(e) \/ HandleEof(e) \/ HandleHup(e)
    BY <1>4 DEF HandleEvent
  <2>2. CASE HandleError(e) \/ HandleEof(e)
    BY <1>1, <2>2 DEF HandleError, HandleEof, NextEvent
  <2> QED BY <1>3, <2>1, <2>2
<1>5. CASE rpc # "events" /\ batch' = batch
  BY <1>1, <1>5 DEF Inv2, Inv1, Control
<1> QED
  BY <1>2, <1>4, <1>5
  DEF Reader, ReaderCreateEpoll, ReadMsg, AddFd, SetNoBlocking, EpollTimeout

LEMMA PeerEvents ==
    ASSUME Inv2, Inv3, NEW c \in Client, Peer(c), UNCHANGED readerVars
    PROVE  EventsAreCurrent' /\ EventsDiffer'
<1>1. batch' = batch /\ file' = file /\ interest' = interest
  BY DEF readerVars, Peer, Connect, PeerSend, PeerClose, PeerReset, PeerError,
         PeerEnd
<1>2. \A e \in batch : file[e.fd] \in Client
  BY DEF Inv3, EventsAreCurrent, Ownership, ReaderHolds, OpenFds, Inv2, Inv1,
         TypeOK, KernelTypeOK
<1>3. \A d \in Client : /\ Mask(d) = "in" => Mask(d)' = "in"
                        /\ Mask(d) # "none" => Mask(d)' # "none"
  BY DEF Mask, Peer, Connect, PeerSend, PeerClose, PeerReset, PeerError,
         PeerEnd, Inv2, Inv1, TypeOK, KernelTypeOK
<1> QED BY <1>1, <1>2, <1>3 DEF Inv3, EventsAreCurrent, EventsDiffer

\* The third layer is inductive on top of the first two.
THEOREM ThirdLayer == Spec => []Inv3
<1>1. Init => Inv3
  <2>1. Range(<<>>) = {} /\ IsInjective(<<>>)
    BY DEF Range, IsInjective
  <2> QED
    BY <2>1
    DEF Init, KernelInit, ServerInit, ReaderInit, Inv3, Ownership, OpenFds,
        ServerHolds, PipeHolds, ReaderHolds, EventsAreCurrent, EventsDiffer
<1>2. Inv2 /\ Inv3 /\ [Next]_vars => Inv3'
  <2> SUFFICES ASSUME Inv2, Inv3, [Next]_vars PROVE Inv3'
    OBVIOUS
  <2>1. CASE Server /\ UNCHANGED readerVars
    BY <2>1, ServerOwnership, ServerEvents DEF Inv2, Inv3
  <2>2. CASE Reader /\ UNCHANGED serverVars
    BY <2>2, ReaderOwnership, ReaderEvents DEF Inv2, Inv3
  <2>3. ASSUME NEW c \in Client, Peer(c), UNCHANGED <<serverVars, readerVars>>
        PROVE  Inv3'
    <3>1. UNCHANGED <<file, acceptfd, pipe, msgfd, interest>>
      BY <2>3
      DEF serverVars, readerVars, Peer, Connect, PeerSend, PeerClose,
          PeerReset, PeerError, PeerEnd
    <3>2. Ownership'
      BY <3>1, SameOwners DEF Inv2, Inv3
    <3>3. EventsAreCurrent' /\ EventsDiffer'
      BY <2>3, PeerEvents
    <3> QED BY <3>2, <3>3 DEF Inv3
  <2>4. CASE UNCHANGED vars
    <3>1. Ownership'
      BY <2>4, SameOwners DEF vars, kernelVars, serverVars, readerVars, Inv2,
                              Inv3
    <3>2. EventsAreCurrent' /\ EventsDiffer'
      BY <2>4 DEF vars, kernelVars, readerVars, Inv3, EventsAreCurrent,
                  EventsDiffer, Mask
    <3> QED BY <3>1, <3>2 DEF Inv3
  <2> QED BY <2>1, <2>2, <2>3, <2>4 DEF Next
<1> QED BY <1>1, <1>2, FirstLayer, SecondLayer, PTL DEF Spec, Inv2

\* Every open descriptor always has exactly one owner.
THEOREM OneOwner == Spec => []Ownership
  BY ThirdLayer, PTL DEF Inv3

\* No event goes stale between epoll_wait() and the read() it leads to.
THEOREM EventsStayCurrent == Spec => []EventsAreCurrent
  BY ThirdLayer, PTL DEF Inv3

\* The process never ends in the reader's SetNoBlocking().
THEOREM ReaderNeverExits == Spec => []NeverExits
<1>1. Init => NeverExits
  BY DEF Init, ReaderInit, NeverExits
<1>2. Inv1 /\ Inv3 /\ NeverExits /\ [Next]_vars => NeverExits'
  <2> SUFFICES ASSUME Inv1, Inv3, NeverExits, [Next]_vars PROVE NeverExits'
    OBVIOUS
  <2>1. ASSUME Reader PROVE NeverExits'
    <3>1. CASE AddFd
      <4>1. msgfd \in OpenFds
        BY <3>1
        DEF AddFd, SetNoBlocking, Inv1, Control, Inv3, Ownership, ReaderHolds
      <4> QED BY <3>1, <4>1 DEF AddFd, SetNoBlocking, OpenFds, NeverExits
    <3> QED
      BY <2>1, <3>1
      DEF Reader, ReaderCreateEpoll, ReadMsg, EpollWait, EpollTimeout,
          HandleEvent, HandleData, HandleError, HandleEof, HandleHup,
          NextEvent, NeverExits
  <2> QED BY <2>1 DEF Next, vars, readerVars, NeverExits
<1> QED BY <1>1, <1>2, FirstLayer, ThirdLayer, PTL DEF Spec

\* What the holders of a descriptor do to it while they keep it: nothing that
\* changes the connection it names.
LEMMA KeepsConnection ==
    ASSUME Inv1, Inv3, Next,
           NEW f \in PipeHolds \cup ReaderHolds,
           f \in PipeHolds' \cup ReaderHolds'
    PROVE  file'[f] = file[f]
<1>1. f \in OpenFds /\ f \notin ServerHolds /\ f \in FD
  BY DEF Inv3, Ownership, OpenFds
<1>2. CASE Accept
  BY <1>1, <1>2 DEF Accept, FreeFds, OpenFds, Inv1, TypeOK, KernelTypeOK
<1>3. CASE WriteFails
  BY <1>1, <1>3
  DEF WriteFails, CloseFd, ServerHolds, Inv1, TypeOK, KernelTypeOK, Control
<1>4. CASE AddFd /\ UNCHANGED serverVars
  <2>1. CASE CloseFd(msgfd) /\ rpc' = "wait"
    <3>1. msgfd \notin PipeHolds /\ msgfd \notin interest' /\ msgfd' = NoFd
      BY <1>4, <2>1
      DEF AddFd, SetNoBlocking, CloseFd, Inv3, Ownership, ReaderHolds, Inv1, Control
    <3>2. f # msgfd
      BY <1>4, <3>1 DEF AddFd, SetNoBlocking, PipeHolds, ReaderHolds
    <3> QED BY <1>1, <2>1, <3>2 DEF CloseFd, Inv1, TypeOK, KernelTypeOK
  <2> QED BY <1>4, <2>1 DEF AddFd, SetNoBlocking, Register
<1>5. ASSUME NEW e \in batch, HandleEof(e) \/ HandleHup(e)
      PROVE  file'[f] = file[f]
  <2>1. e.fd \in interest /\ e.fd \notin PipeHolds /\ e.fd # msgfd
    BY DEF Inv3, EventsAreCurrent, Ownership, ReaderHolds
  <2>2. f # e.fd
    BY <1>5, <2>1
    DEF HandleEof, HandleHup, CloseFd, PipeHolds, ReaderHolds
  <2> QED
    BY <1>1, <1>5, <2>2
    DEF HandleEof, HandleHup, CloseFd, Inv1, TypeOK, KernelTypeOK
<1>6. CASE UNCHANGED file
  BY <1>6
<1> QED
  BY <1>2, <1>3, <1>4, <1>5, <1>6
  DEF Next, Server, CreateEpoll, CreateSocket, SetEpollCtl, SetListen,
      WaitListen, AcceptFails, ReadFirst, WriteMsg, Reader,
      ReaderCreateEpoll, ReadMsg, EpollWait, EpollTimeout, HandleEvent,
      HandleData, HandleError, Peer, Connect, PeerSend, PeerClose,
      PeerReset, PeerError, PeerEnd, kernelVars

\* A descriptor on its way to the reader, or registered by it, keeps naming
\* the same connection.
THEOREM HandOver == Spec => HandOverKeepsConnection
<1> DEFINE Kept == \A f \in PipeHolds \cup ReaderHolds :
                      f \in PipeHolds' \cup ReaderHolds' => file'[f] = file[f]
<1>1. Inv1 /\ Inv3 /\ [Next]_vars => [Kept]_vars
  BY KeepsConnection DEF Kept
<1> QED
  BY <1>1, FirstLayer, ThirdLayer, PTL DEF Spec, HandOverKeepsConnection

-----------------------------------------------------------------------------
(* The refinement: the pipeline implements ConnectionLife.                 *)

Passing == Names(file, pipe)

Watched == {file[f] : f \in interest}

Closed == {c \in Client : link[c] = "closed"}

\* Whoever keeps what he holds keeps the connections.
LEMMA SameLife ==
    ASSUME Inv1, Inv3, Next
    PROVE  /\ pipe' = pipe => Passing' = Passing
           /\ msgfd' = msgfd => Named(msgfd)' = Named(msgfd)
           /\ acceptfd' = acceptfd => Named(acceptfd)' = Named(acceptfd)
           /\ interest' = interest => Watched' = Watched
<1>1. ASSUME pipe' = pipe PROVE Passing' = Passing
  <2>1. \A i \in DOMAIN pipe : pipe[i] \in PipeHolds
    BY DEF PipeHolds, Range
  <2>2. PipeHolds' = PipeHolds
    BY <1>1 DEF PipeHolds
  <2>3. \A i \in DOMAIN pipe : file'[pipe[i]] = file[pipe[i]]
    BY <2>1, <2>2, KeepsConnection
  <2> QED BY <1>1, <2>3 DEF Passing, Names
<1>2. ASSUME msgfd' = msgfd PROVE Named(msgfd)' = Named(msgfd)
  <2>1. CASE msgfd # NoFd
    <3>1. msgfd \in ReaderHolds /\ msgfd \in ReaderHolds'
      BY <1>2, <2>1 DEF ReaderHolds
    <3> QED BY <1>2, <3>1, KeepsConnection DEF Named
  <2> QED BY <1>2, <2>1 DEF Named
<1>3. ASSUME acceptfd' = acceptfd PROVE Named(acceptfd)' = Named(acceptfd)
  <2> SUFFICES ASSUME acceptfd # NoFd PROVE file'[acceptfd] = file[acceptfd]
    BY <1>3 DEF Named
  <2>1. /\ acceptfd \in FD /\ acceptfd \in ServerHolds
        /\ acceptfd # msgfd /\ acceptfd \notin interest
        /\ spc \in {"read", "write"}
    BY DEF ServerHolds, ReaderHolds, Inv1, TypeOK, ServerTypeOK, Control, Inv3,
           Ownership
  <2>2. ~Accept /\ ~WriteFails
    BY <1>3, <2>1 DEF Accept, WriteFails
  <2>3. CASE AddFd
    <3>1. CASE CloseFd(msgfd)
      BY <2>1, <3>1 DEF CloseFd, Inv1, TypeOK, KernelTypeOK
    <3> QED BY <2>3, <3>1 DEF AddFd, SetNoBlocking, Register
  <2>4. ASSUME NEW e \in batch, HandleEof(e) \/ HandleHup(e)
        PROVE  file'[acceptfd] = file[acceptfd]
    <3>1. e.fd # acceptfd
      BY <2>1 DEF Inv3, EventsAreCurrent
    <3> QED
      BY <2>1, <2>4, <3>1
      DEF HandleEof, HandleHup, CloseFd, Inv1, TypeOK, KernelTypeOK
  <2>5. CASE UNCHANGED file
    BY <2>5
  <2> QED
    BY <2>2, <2>3, <2>4, <2>5
    DEF Next, Server, CreateEpoll, CreateSocket, SetEpollCtl, SetListen,
        WaitListen, AcceptFails, ReadFirst, WriteMsg, Reader,
        ReaderCreateEpoll, ReadMsg, EpollWait, EpollTimeout, HandleEvent,
        HandleData, HandleError, Peer, Connect, PeerSend, PeerClose,
        PeerReset, PeerError, PeerEnd, kernelVars
<1>4. ASSUME interest' = interest PROVE Watched' = Watched
  <2>1. \A f \in interest : f \in ReaderHolds /\ f \in ReaderHolds'
    BY <1>4 DEF ReaderHolds
  <2>2. \A f \in interest : file'[f] = file[f]
    BY <2>1, KeepsConnection
  <2> QED BY <1>4, <2>2 DEF Watched
<1> QED BY <1>1, <1>2, <1>3, <1>4

\* read() closes nothing, close() what it is given.
LEMMA ReadConnCloses ==
    ASSUME Inv1, NEW c, NEW n, ReadConn(c, n) PROVE Closed' = Closed
  BY DEF ReadConn, Closed, Inv1, TypeOK, KernelTypeOK

LEMMA CloseFdCloses ==
    ASSUME Inv1, NEW f \in OpenFds, CloseFd(f)
    PROVE  /\ file[f] \in Client
           /\ Closed' = Closed \cup {file[f]}
<1>1. file[f] \in Client
  BY DEF OpenFds, Inv1, TypeOK, KernelTypeOK
<1>2. \A c \in Client : link'[c] = "closed" <=> link[c] = "closed" \/ c = file[f]
  BY DEF CloseFd, Inv1, TypeOK, KernelTypeOK
<1> QED BY <1>1, <1>2 DEF Closed

\* The names of a longer and of a shorter pipe.
LEMMA PassingMoves ==
    ASSUME Inv1
    PROVE  /\ \A f \in FD : Names(file, Append(pipe, f)) = Append(Passing, file[f])
           /\ pipe # <<>> => /\ Passing # <<>>
                             /\ Head(Passing) = file[Head(pipe)]
                             /\ Names(file, Tail(pipe)) = Tail(Passing)
<1>1. pipe \in Seq(FD)
  BY DEF Inv1, TypeOK, KernelTypeOK
<1>2. \A f \in FD : Names(file, Append(pipe, f)) = Append(Names(file, pipe), file[f])
  BY ONLY <1>1, NamesAppend
<1>3. pipe # <<>> => /\ Names(file, pipe) # <<>>
                     /\ Head(Names(file, pipe)) = file[Head(pipe)]
                     /\ Names(file, Tail(pipe)) = Tail(Names(file, pipe))
  BY ONLY <1>1, NamesTail
<1> QED BY <1>2, <1>3, Zenon DEF Passing

\* The accept thread's steps, as steps of the connections.
LEMMA ServerLife ==
    ASSUME Inv2, Inv3, Next, Server, UNCHANGED readerVars
    PROVE  Life!Next \/ UNCHANGED Life!lifeVars
<1>1. Inv1 /\ msgfd' = msgfd
  BY DEF readerVars, Inv2
<1>2. Named(msgfd)' = Named(msgfd)
  BY <1>1, SameLife
<1>3. CASE Accept
  <2>1. PICK f \in FreeFds : /\ file' = [file EXCEPT ![f] = Head(acceptq)]
                             /\ acceptfd' = f
    BY <1>3 DEF Accept
  <2>2. /\ acceptfd = NoFd /\ acceptq # <<>> /\ acceptq' = Tail(acceptq)
        /\ pipe' = pipe /\ interest' = interest /\ link' = link
    BY <1>1, <1>3 DEF Accept, Inv1, Control
  <2>3. Named(acceptfd) = NoClient /\ Named(acceptfd)' = Head(acceptq)
    <3>1. f \in FD /\ f # NoFd /\ file'[f] = Head(acceptq)
      BY <1>1, <2>1 DEF FreeFds, Inv1, TypeOK, KernelTypeOK
    <3> QED BY <2>1, <2>2, <3>1 DEF Named
  <2>4. Passing' = Passing /\ Watched' = Watched /\ Closed' = Closed
    BY <1>1, <2>2, SameLife DEF Closed
  <2>5. Life!Accept
    BY <1>2, <2>2, <2>3, <2>4, Zenon DEF Life!Accept, Passing, Names, Watched, Closed
  <2> QED BY <2>5 DEF Life!Next
<1>4. ASSUME spc = "write", acceptfd' = NoFd
      PROVE  /\ acceptfd \in FD /\ acceptfd \in OpenFds
             /\ Named(acceptfd) = file[acceptfd] /\ file[acceptfd] # NoClient
             /\ Named(acceptfd)' = NoClient
  BY <1>1, <1>4
  DEF Named, Inv1, TypeOK, ServerTypeOK, Control, Inv3, Ownership, ServerHolds,
      OpenFds
<1>5. CASE WriteMsg
  <2>1. /\ spc = "write" /\ acceptfd' = NoFd /\ pipe' = Append(pipe, acceptfd)
        /\ acceptq' = acceptq /\ interest' = interest /\ link' = link
        /\ file' = file
    BY <1>5 DEF WriteMsg
  <2>2. Passing' = Append(Passing, Named(acceptfd))
    <3>1. pipe \in Seq(FD) /\ acceptfd \in FD
      BY <1>1, <1>4, <2>1 DEF Inv1, TypeOK, KernelTypeOK
    <3>3. Names(file, Append(pipe, acceptfd)) = Append(Passing, file[acceptfd])
      BY <1>1, <3>1, PassingMoves
    <3>4. Passing' = Names(file, Append(pipe, acceptfd))
      BY <2>1 DEF Passing
    <3>5. Named(acceptfd) = file[acceptfd]
      BY <1>4, <2>1
    <3> QED BY <3>3, <3>4, <3>5 DEF Passing
  <2>3. Watched' = Watched /\ Closed' = Closed
    BY <2>1 DEF Watched, Closed
  <2>4. Life!Pass
    BY <1>2, <1>4, <2>1, <2>2, <2>3, Zenon
    DEF Life!Pass, Passing, Names, Watched, Closed
  <2> QED BY <2>4 DEF Life!Next
<1>6. CASE WriteFails
  <2>1. /\ spc = "write" /\ acceptfd' = NoFd /\ CloseFd(acceptfd)
        /\ acceptq' = acceptq /\ pipe' = pipe
    BY <1>6 DEF WriteFails
  <2>2. interest' = interest
    BY <1>4, <2>1
    DEF CloseFd, Inv3, Ownership, ServerHolds, ReaderHolds
  <2>3. Closed' = Closed \cup {Named(acceptfd)}
    BY <1>1, <1>4, <2>1, CloseFdCloses
  <2>4. Passing' = Passing /\ Watched' = Watched
    BY <1>1, <2>1, <2>2, SameLife
  <2>5. Life!Pass
    BY <1>2, <1>4, <2>1, <2>3, <2>4, Zenon
    DEF Life!Pass, Passing, Names, Watched, Closed
  <2> QED BY <2>5 DEF Life!Next
<1>7. ASSUME UNCHANGED <<acceptq, acceptfd, pipe, interest>>, Closed' = Closed
      PROVE  UNCHANGED Life!lifeVars
  <2>1. /\ Passing' = Passing /\ Watched' = Watched
        /\ Named(acceptfd)' = Named(acceptfd)
    BY <1>1, <1>7, SameLife
  <2> QED
    BY <1>2, <1>7, <2>1, Zenon DEF Life!lifeVars, Passing, Names, Watched, Closed
<1>8. CASE ReadFirst
  BY <1>1, <1>7, <1>8, ReadConnCloses DEF ReadFirst
<1>9. CASE UNCHANGED <<acceptq, acceptfd, pipe, interest, link>>
  BY <1>7, <1>9 DEF Closed
<1> QED
  BY <1>3, <1>5, <1>6, <1>8, <1>9
  DEF Server, CreateEpoll, CreateSocket, SetEpollCtl, SetListen, WaitListen,
      AcceptFails, kernelVars

\* The reader's.
LEMMA ReaderLife ==
    ASSUME Inv2, Inv3, Next, Reader, UNCHANGED serverVars
    PROVE  Life!Next \/ UNCHANGED Life!lifeVars
<1>1. Inv1 /\ acceptfd' = acceptfd
  BY DEF serverVars, Inv2
<1>2. Named(acceptfd)' = Named(acceptfd)
  BY <1>1, SameLife
<1>3. acceptq' = acceptq
  BY DEF Reader, ReaderCreateEpoll, ReadMsg, AddFd, EpollWait, EpollTimeout,
         HandleEvent, HandleData, HandleError, HandleEof, HandleHup, kernelVars
<1>4. CASE ReadMsg
  <2>1. /\ pipe # <<>> /\ pipe' = Tail(pipe) /\ msgfd = NoFd
        /\ interest' = interest /\ link' = link /\ file' = file
    BY <1>1, <1>4 DEF ReadMsg, Inv1, Control
  <2>2. msgfd' = Head(pipe) /\ Head(pipe) \in FD
    <3>1. Head(pipe) \in FD
      BY <1>1, <2>1, TailRange DEF Inv1, TypeOK, KernelTypeOK
    <3>2. ~(Head(pipe) <= 0)
      <4>1. FD \subseteq Nat \ {0}
        OBVIOUS
      <4>2. Head(pipe) \in Nat \ {0}
        BY <3>1, <4>1
      <4> QED BY <4>2
    <3> QED BY <1>4, <3>1, <3>2 DEF ReadMsg
  <2>3. Named(msgfd) = NoClient /\ Named(msgfd)' = file[Head(pipe)]
    BY <2>1, <2>2 DEF Named
  <2>4. /\ Passing # <<>> /\ Head(Passing) = file[Head(pipe)]
        /\ Passing' = Tail(Passing)
    <3>1. Passing' = Names(file, Tail(pipe))
      BY <2>1 DEF Passing
    <3> QED BY <1>1, <2>1, <3>1, PassingMoves
  <2>5. Watched' = Watched /\ Closed' = Closed
    BY <2>1 DEF Watched, Closed
  <2>6. Life!Take
    BY <1>2, <1>3, <2>3, <2>4, <2>5, Zenon
    DEF Life!Take, Passing, Names, Watched, Closed
  <2> QED BY <2>6 DEF Life!Next
<1>5. CASE AddFd /\ rpc' = "wait"
  <2>1. /\ msgfd \in FD /\ msgfd \in OpenFds /\ msgfd \notin interest
        /\ msgfd' = NoFd /\ pipe' = pipe
        /\ Named(msgfd) = file[msgfd] /\ file[msgfd] # NoClient
        /\ Named(msgfd)' = NoClient
    BY <1>1, <1>5
    DEF AddFd, SetNoBlocking, Named, Inv1, TypeOK, ReaderTypeOK, Control, Inv3,
        Ownership, ReaderHolds, OpenFds
  <2>2. Passing' = Passing
    BY <1>1, <2>1, SameLife
  <2>3. CASE Register
    <3>1. interest' = interest \cup {msgfd} /\ file' = file /\ link' = link
      BY <2>3 DEF Register
    <3>2. Watched' = Watched \cup {Named(msgfd)} /\ Closed' = Closed
      BY <2>1, <3>1 DEF Watched, Closed
    <3>3. Life!Watch
      BY <1>2, <1>3, <2>1, <2>2, <3>2, Zenon
      DEF Life!Watch, Passing, Names, Watched, Closed
    <3> QED BY <3>3 DEF Life!Next
  <2>4. CASE CloseFd(msgfd)
    <3>1. interest' = interest
      BY <2>1, <2>4 DEF CloseFd
    <3>2. Watched' = Watched
      BY <1>1, <3>1, SameLife
    <3>3. Closed' = Closed \cup {Named(msgfd)}
      BY <1>1, <2>1, <2>4, CloseFdCloses
    <3>4. Life!Watch
      BY <1>2, <1>3, <2>1, <2>2, <3>2, <3>3, Zenon
      DEF Life!Watch, Passing, Names, Watched, Closed
    <3> QED BY <3>4 DEF Life!Next
  <2> QED BY <1>5, <2>3, <2>4 DEF AddFd, SetNoBlocking
<1>6. ASSUME NEW e \in batch, HandleEof(e) \/ HandleHup(e)
      PROVE  Life!Next
  <2>1. CloseFd(e.fd) /\ pipe' = pipe /\ msgfd' = msgfd
    BY <1>6 DEF HandleEof, HandleHup
  <2>2. e.fd \in interest /\ e.fd \in OpenFds
    BY DEF Inv3, EventsAreCurrent, Ownership, ReaderHolds
  <2>3. Passing' = Passing /\ Named(msgfd)' = Named(msgfd)
    BY <1>1, <2>1, SameLife
  <2>4. file[e.fd] \in Client /\ Closed' = Closed \cup {file[e.fd]}
    BY <1>1, <2>1, <2>2, CloseFdCloses
  <2>5. Watched' = Watched \ {file[e.fd]} /\ file[e.fd] \in Watched
    <3>1. interest' = interest \ {e.fd}
      BY <2>1 DEF CloseFd
    <3>2. \A f \in interest' : file'[f] = file[f]
      BY <1>1, <2>1, <3>1 DEF CloseFd, Inv1, TypeOK, KernelTypeOK
    <3>3. interest \subseteq OpenFds
      BY DEF Inv3, Ownership, ReaderHolds
    <3>4. \A f \in interest : file[f] = file[e.fd] => f = e.fd
      BY <2>2, <3>3 DEF Inv2, Connections
    <3> QED BY <2>2, <3>1, <3>2, <3>4 DEF Watched
  <2>6. PICK c \in Client : c = file[e.fd]
    BY <2>4
  <2>7. Life!Close(c)
    BY <1>2, <1>3, <2>3, <2>4, <2>5, <2>6, Zenon
    DEF Life!Close, Passing, Names, Watched, Closed
  <2> QED BY <2>7 DEF Life!Next
<1>7. ASSUME UNCHANGED <<msgfd, pipe, interest>>, Closed' = Closed
      PROVE  UNCHANGED Life!lifeVars
  <2>1. /\ Passing' = Passing /\ Watched' = Watched
        /\ Named(msgfd)' = Named(msgfd)
    BY <1>1, <1>7, SameLife
  <2> QED
    BY <1>2, <1>3, <1>7, <2>1, Zenon
    DEF Life!lifeVars, Passing, Names, Watched, Closed
<1>8. ASSUME NEW e \in batch, HandleData(e) \/ HandleError(e)
      PROVE  UNCHANGED Life!lifeVars
  BY <1>1, <1>7, <1>8, ReadConnCloses DEF HandleData, HandleError
<1>9. CASE UNCHANGED <<msgfd, pipe, interest, link>>
  BY <1>7, <1>9 DEF Closed
<1> QED
  BY <1>4, <1>5, <1>6, <1>8, <1>9
  DEF Reader, ReaderCreateEpoll, AddFd, SetNoBlocking, EpollWait, EpollTimeout,
      HandleEvent, kernelVars

\* The peers': a connection that comes was never there before.
LEMMA PeerLife ==
    ASSUME Inv2, Inv3, Next, NEW c \in Client, Peer(c),
           UNCHANGED <<serverVars, readerVars>>
    PROVE  Life!Next \/ UNCHANGED Life!lifeVars
<1>1. /\ Inv1
      /\ UNCHANGED <<acceptfd, msgfd, pipe, interest, file>>
  BY DEF serverVars, readerVars, Inv2, Peer, Connect, PeerSend, PeerClose,
         PeerReset, PeerError, PeerEnd
<1>2. /\ Passing' = Passing /\ Watched' = Watched
      /\ Named(acceptfd)' = Named(acceptfd) /\ Named(msgfd)' = Named(msgfd)
  BY <1>1, SameLife
<1>3. CASE Connect(c)
  <2>1. /\ link[c] = "idle" /\ acceptq' = Append(acceptq, c)
        /\ link' = [link EXCEPT ![c] = "open"]
    BY <1>3 DEF Connect
  <2>2. Closed' = Closed
    BY <1>1, <2>1 DEF Closed, Inv1, TypeOK, KernelTypeOK
  <2>3. c \notin Range(acceptq) /\ \A f \in FD : file[f] # c
    BY <1>1, <2>1
    DEF Inv2, Connections, OpenFds, Inv1, TypeOK, KernelTypeOK
  <2>4. c \notin Closed
    BY <2>1 DEF Closed
  <2>5. c # Named(acceptfd) /\ c # Named(msgfd)
    BY <1>1, <2>3
    DEF Named, Inv1, TypeOK, ServerTypeOK, ReaderTypeOK
  <2>6. c \notin Watched
    BY <1>1, <2>3 DEF Watched, Inv1, TypeOK, KernelTypeOK
  <2>7. c \notin Range(Passing)
    <3>1. \A i \in DOMAIN pipe : pipe[i] \in FD
      BY <1>1 DEF Inv1, TypeOK, KernelTypeOK
    <3>2. \A i \in DOMAIN pipe : file[pipe[i]] # c
      BY <2>3, <3>1
    <3> QED BY <3>2 DEF Passing, Names, Range
  <2>8. Life!Arrive(c)
    BY <1>2, <2>1, <2>2, <2>3, <2>4, <2>5, <2>6, <2>7, Zenon
    DEF Life!Arrive, Life!Known, Life!Range, Range, Passing, Names, Watched, Closed
  <2> QED BY <2>8 DEF Life!Next
<1>4. ASSUME acceptq' = acceptq, Closed' = Closed
      PROVE  UNCHANGED Life!lifeVars
  BY <1>2, <1>4, Zenon DEF Life!lifeVars, Passing, Names, Watched, Closed
<1>5. CASE PeerSend(c)
  BY <1>4, <1>5 DEF PeerSend, Closed
<1>6. CASE PeerClose(c) \/ PeerReset(c) \/ PeerError(c)
  BY <1>1, <1>4, <1>6
  DEF PeerClose, PeerReset, PeerError, PeerEnd, Closed, Inv1, TypeOK,
      KernelTypeOK
<1> QED BY <1>3, <1>5, <1>6 DEF Peer

\* Descriptor numbers, passed from thread to thread, closed and given out
\* again, stand for the connections themselves.
THEOREM PipelineRefines == Spec => PassesConnections
<1>1. Init => Life!Init
  <2> SUFFICES ASSUME Init PROVE Life!Init
    OBVIOUS
  <2>1. /\ acceptq = <<>> /\ pipe = <<>> /\ interest = {}
        /\ acceptfd = NoFd /\ msgfd = NoFd
        /\ \A c \in Client : link[c] = "idle"
    BY DEF Init, KernelInit, ServerInit, ReaderInit
  <2>2. Named(acceptfd) = NoClient /\ Named(msgfd) = NoClient
    BY <2>1 DEF Named
  <2>3. Passing = <<>> /\ Watched = {} /\ Closed = {}
    BY <2>1 DEF Passing, Names, Watched, Closed
  <2> QED
    BY <2>1, <2>2, <2>3, Zenon DEF Life!Init, Passing, Names, Watched, Closed
<1>2. Inv2 /\ Inv3 /\ [Next]_vars => [Life!Next]_(Life!lifeVars)
  <2> SUFFICES ASSUME Inv2, Inv3, [Next]_vars
               PROVE  Life!Next \/ UNCHANGED Life!lifeVars
    OBVIOUS
  <2>1. CASE Next
    BY <2>1, ServerLife, ReaderLife, PeerLife DEF Next
  <2>2. CASE UNCHANGED vars
    BY <2>2 DEF vars, kernelVars, serverVars, readerVars, Life!lifeVars, Named
  <2> QED BY <2>1, <2>2
<1> QED
  BY <1>1, <1>2, FirstLayer, SecondLayer, ThirdLayer, PTL
  DEF Spec, Inv2, PassesConnections, Life!Spec

=============================================================================
