---------------------------- MODULE BaseComProofs ----------------------------
(***************************************************************************)
(* Proofs, for any number of clients and descriptors and any length of the *)
(* message, that the programs together behave as EpollPipeline, whose      *)
(* theorems they inherit, and that the client's send loop is right.        *)
(***************************************************************************)
EXTENDS BaseCom, EpollPipelineProofs

USE ClientAssumption DEF ClientAssumption

-----------------------------------------------------------------------------
(* The refinement.                                                         *)

\* What a client does to the kernel is what a peer may do there.
LEMMA ClientIsPeer ==
    ASSUME NEW c \in Client, Main(c, Up) \/ Kill(c, Up)
    PROVE  UNCHANGED kernelVars \/ (Up /\ Peer(c))
<1>1. CASE Connects(c, Up)
  BY <1>1 DEF Connects, Peer
<1>2. CASE SendTakes(c, Up)
  BY <1>2 DEF SendTakes, Alive, Peer
<1>3. CASE Close(c, Up) \/ Kill(c, Up)
  BY <1>3 DEF Close, Kill, HangUp, Alive, Peer
<1>4. CASE UNCHANGED kernelVars
  BY <1>4
<1> QED
  BY <1>1, <1>2, <1>3, <1>4
  DEF Main, Socket, ConnectFails, SendReturns, SendLost, SendFails, SigPipe,
      Read

LEMMA StepRefines == ASSUME [BaseNext]_baseVars PROVE [Next]_vars
<1>1. CASE AcceptThread
  BY <1>1 DEF AcceptThread, Runs, Up, Next
<1>2. CASE ReadThread
  BY <1>2 DEF ReadThread, Runs, Up, Next
<1>3. ASSUME NEW c \in Client, ClientRuns(c) \/ ClientKilled(c)
      PROVE  [Next]_vars
  <2>1. /\ UNCHANGED kernelVars \/ (Up /\ Peer(c))
        /\ UNCHANGED <<serverVars, readerVars>>
    BY <1>3, ClientIsPeer DEF ClientRuns, ClientKilled
  <2> QED BY <2>1 DEF Up, Next, vars
<1>4. CASE UNCHANGED vars
  BY <1>4
<1> QED
  BY <1>1, <1>2, <1>3, <1>4
  DEF BaseNext, baseVars, MainThread, ProcessEnds

\* Server, main thread and clients together are a behaviour of EpollPipeline.
THEOREM BaseRefines == BaseSpec => ImplementsPipeline
<1>1. BaseInit => Init
  BY DEF BaseInit
<1>2. [BaseNext]_baseVars => [Next]_vars
  BY StepRefines
<1> QED BY <1>1, <1>2, PTL DEF BaseSpec, ImplementsPipeline

\* What is proved of the pipeline holds of the programs together: one owner
\* of every descriptor, no stale event, no exit(1), nothing left open, and the
\* life of each connection.
THEOREM BaseInherits ==
    BaseSpec => /\ [](TypeOK /\ Ownership /\ EventsAreCurrent /\ NeverExits
                      /\ StopsClean)
                /\ HandOverKeepsConnection
                /\ PassesConnections
<1>1. ImplementsPipeline => Spec
  BY DEF ImplementsPipeline, Spec
<1> QED
  BY <1>1, BaseRefines, TypeCorrect, OneOwner, EventsStayCurrent,
     ReaderNeverExits, AlwaysStopsClean, HandOver, PipelineRefines, PTL

-----------------------------------------------------------------------------
(* The client.                                                             *)

\* Where client c is in its program, and what that says of its message.  The
\* loop counter stays behind the units sent, as each try of a connected client
\* sends one at least; with MsgLen <= MaxLoop it cannot run out before them.
Progress(c) ==
    /\ cpc[c] \in {"socket", "connect"} =>
          /\ sock[c] \in {"none", "unconnected"}
          /\ pos[c] = 0 /\ taken[c] = 0 /\ loop[c] = 0 /\ wire[c] = <<>>
    /\ sock[c] = "connected" => link[c] # "idle"
    /\ taken[c] > 0 => cpc[c] \in {"send", "killed"}
    /\ pos[c] + taken[c] <= MsgLen
    /\ cpc[c] = "send" => pos[c] < MsgLen /\ loop[c] < MaxLoop
    /\ cpc[c] \in {"close", "done"} => ~Alive(c, Up)
    /\ link[c] = "fin" => cpc[c] = "killed"
    /\ Alive(c, Up) =>
          /\ wire[c] = [i \in 1..(pos[c] + taken[c]) |-> i]
          /\ loop[c] <= pos[c]
          /\ cpc[c] = "read" => pos[c] = MsgLen

ClientInv == ClientTypeOK /\ MainTypeOK /\ \A c \in Client : Progress(c)

\* One more unit of the message on the wire.
LEMMA WireGrows ==
    ASSUME NEW n \in Nat
    PROVE  Append([i \in 1..n |-> i], n + 1) = [i \in 1..(n + 1) |-> i]
  OBVIOUS

\* A client that does nothing keeps its place while its connection at most
\* loses its other end.
LEMMA OtherProgress ==
    ASSUME NEW c, Progress(c), Up' => Up,
           UNCHANGED <<cpc[c], sock[c], pos[c], taken[c], loop[c], wire[c]>>,
           link'[c] \in {link[c], "gone", "closed"}
    PROVE  Progress(c)'
  BY DEF Progress, Alive

\* The two threads end connections, and open none.
LEMMA ThreadsEndLinks ==
    ASSUME Inv1, Server \/ Reader, NEW c \in Client
    PROVE  link'[c] \in {link[c], "gone", "closed"}
<1> USE DEF Inv1, TypeOK, KernelTypeOK
<1>1. ASSUME NEW f, CloseFd(f) PROVE link'[c] \in {link[c], "closed"}
  BY <1>1 DEF CloseFd
<1>2. ASSUME NEW d, NEW n, ReadConn(d, n) PROVE link'[c] \in {link[c], "gone"}
  BY <1>2 DEF ReadConn
<1>3. CASE UNCHANGED link
  BY <1>3
<1> QED
  BY <1>1, <1>2, <1>3
  DEF Server, CreateEpoll, CreateSocket, SetEpollCtl, SetListen, WaitListen,
      Accept, AcceptFails, ReadFirst, WriteMsg, WriteFails, Reader,
      ReaderCreateEpoll, ReadMsg, AddFd, Register, EpollWait, EpollTimeout,
      HandleEvent, HandleData, HandleError, HandleEof, HandleHup, kernelVars

\* Types and progress of a client whose send() has just returned.
LEMMA LoopKeeps ==
    ASSUME ClientTypeOK, NEW c \in Client, cpc[c] = "send", LoopCondition(c),
           loop[c] < MaxLoop, pos' \in [Client -> 0..MsgLen]
    PROVE  /\ cpc' \in [Client -> {"socket", "connect", "send", "read",
                                   "close", "done", "killed"}]
           /\ loop' \in [Client -> 0..MaxLoop]
           /\ cpc'[c] \in {"send", "read"}
           /\ cpc'[c] = "send" => pos'[c] < MsgLen /\ loop'[c] < MaxLoop
           /\ cpc'[c] = "read" /\ pos'[c] < MsgLen => loop[c] + 1 >= MaxLoop
           /\ loop'[c] \in {loop[c], loop[c] + 1}
           /\ cpc'[c] = "send" => loop'[c] = loop[c] + 1
           /\ \A d \in Client \ {c} : cpc'[d] = cpc[d] /\ loop'[d] = loop[d]
<1> USE DEF ClientTypeOK
<1>1. CASE pos'[c] < MsgLen
  <2>1. loop[c] + 1 \in 0..MaxLoop
    OBVIOUS
  <2>2. /\ loop' = [loop EXCEPT ![c] = loop[c] + 1]
        /\ cpc' = [cpc EXCEPT ![c] =
                      IF loop[c] + 1 < MaxLoop THEN "send" ELSE "read"]
    BY <1>1 DEF LoopCondition, Goto
  <2>3. loop'[c] = loop[c] + 1
    BY <2>2
  <2>4. loop' \in [Client -> 0..MaxLoop]
    BY <2>1, <2>2
  <2> QED BY <1>1, <2>1, <2>2, <2>3, <2>4
<1>2. CASE ~(pos'[c] < MsgLen)
  BY <1>2 DEF LoopCondition, Goto
<1> QED BY <1>1, <1>2

\* A client's step keeps the types of the client's variables.
LEMMA ClientType ==
    ASSUME ClientTypeOK, NEW c \in Client, Progress(c),
           Main(c, Up) \/ Kill(c, Up)
    PROVE  ClientTypeOK'
<1> USE DEF ClientTypeOK, Goto
<1>1. CASE Socket(c)
  BY <1>1 DEF Socket
<1>2. CASE Connects(c, Up) \/ ConnectFails(c, Up)
  BY <1>2 DEF Connects, ConnectFails
<1>3. CASE SendTakes(c, Up)
  <2>1. pos[c] + taken[c] + 1 \in 1..MsgLen /\ taken[c] + 1 \in 0..MsgLen
    BY <1>3 DEF SendTakes
  <2>2. Append(wire[c], pos[c] + taken[c] + 1) \in Seq(1..MsgLen)
    BY <2>1, AppendProperties
  <2> QED BY <1>3, <2>1, <2>2 DEF SendTakes
<1>4. CASE SendReturns(c)
  <2>1. pos' \in [Client -> 0..MsgLen]
    BY <1>4 DEF SendReturns, Progress
  <2> QED BY <1>4, <2>1, LoopKeeps DEF SendReturns, Progress
<1>5. CASE SendLost(c, Up)
  <2>1. pos' \in [Client -> 0..MsgLen]
    BY <1>5 DEF SendLost, Progress
  <2> QED BY <1>5, <2>1, LoopKeeps DEF SendLost, Progress
<1>6. CASE SendFails(c, Up)
  BY <1>6, LoopKeeps DEF SendFails, Progress
<1>7. CASE SigPipe(c, Up) \/ Read(c, Up) \/ Close(c, Up) \/ Kill(c, Up)
  BY <1>7 DEF SigPipe, Read, Close, Kill
<1> QED BY <1>1, <1>2, <1>3, <1>4, <1>5, <1>6, <1>7 DEF Main

\* A step of client c keeps its own progress and that of the others.
LEMMA OwnProgress ==
    ASSUME ClientTypeOK, ClientTypeOK', Inv1, NEW c \in Client, Progress(c),
           Main(c, Up) \/ Kill(c, Up), UNCHANGED <<mpc, rpc>>
    PROVE  Progress(c)'
<1> USE DEF ClientTypeOK
<1>0. Up' = Up
  BY DEF Up
<1>1. CASE Socket(c)
  BY <1>0, <1>1 DEF Socket, Goto, Progress, Alive, kernelVars
<1>2. CASE Connects(c, Up)
  <2>1. /\ cpc'[c] = "send" /\ link'[c] = "open" /\ sock'[c] = "connected"
        /\ UNCHANGED <<pos, taken, loop, wire>>
    BY <1>2 DEF Connects, Connect, Goto, Inv1, TypeOK, KernelTypeOK
  <2>2. pos[c] = 0 /\ taken[c] = 0 /\ loop[c] = 0 /\ wire[c] = <<>>
    BY <1>2 DEF Connects, Progress
  <2>3. [i \in 1..(0 + 0) |-> i] = <<>>
    OBVIOUS
  <2> QED BY <2>1, <2>2, <2>3 DEF Progress
<1>3. CASE ConnectFails(c, Up)
  BY <1>0, <1>3 DEF ConnectFails, Goto, Progress, Alive, kernelVars
<1>4. CASE SendTakes(c, Up)
  <2> DEFINE n == pos[c] + taken[c]
  <2>1. /\ taken'[c] = taken[c] + 1 /\ wire'[c] = Append(wire[c], n + 1)
        /\ UNCHANGED <<cpc, sock, pos, loop, link>>
        /\ cpc[c] = "send" /\ n < MsgLen /\ Alive(c, Up)
    BY <1>4 DEF SendTakes, PeerSend
  <2>2. n \in Nat /\ wire[c] = [i \in 1..n |-> i] /\ pos[c] + (taken[c] + 1) = n + 1
    BY <2>1 DEF Progress
  <2>3. wire'[c] = [i \in 1..(n + 1) |-> i]
    BY <2>1, <2>2, WireGrows
  <2> HIDE DEF n
  <2>4. pos'[c] + taken'[c] = n + 1 /\ n + 1 <= MsgLen
    BY <2>1, <2>2
  <2> QED BY <2>1, <2>3, <2>4 DEF Progress, Alive
<1>5. CASE SendReturns(c)
  <2>1. /\ pos'[c] = pos[c] + taken[c] /\ taken'[c] = 0
        /\ cpc[c] = "send" /\ taken[c] > 0
        /\ UNCHANGED <<sock, wire, kernelVars>>
    BY <1>5 DEF SendReturns
  <2>2. pos'[c] + taken'[c] = pos[c] + taken[c]
    BY <2>1
  <2>3. /\ cpc'[c] \in {"send", "read"}
        /\ cpc'[c] = "send" => pos'[c] < MsgLen /\ loop'[c] < MaxLoop
        /\ cpc'[c] = "read" /\ pos'[c] < MsgLen => loop[c] + 1 >= MaxLoop
        /\ loop'[c] \in {loop[c], loop[c] + 1}
    BY <1>5, LoopKeeps DEF SendReturns, Progress
  <2>4. Alive(c, Up)' => loop'[c] <= pos'[c]
                         /\ (cpc'[c] = "read" => pos'[c] = MsgLen)
    BY <1>0, <2>1, <2>3 DEF Progress, Alive, kernelVars
  <2>5. Alive(c, Up)' = Alive(c, Up) /\ link'[c] = link[c]
    BY <1>0, <2>1 DEF Alive, kernelVars
  <2>6. [i \in 1..(pos'[c] + taken'[c]) |-> i] = [i \in 1..(pos[c] + taken[c]) |-> i]
    BY <2>2
  <2>7. Alive(c, Up)' => wire'[c] = [i \in 1..(pos'[c] + taken'[c]) |-> i]
    BY <2>1, <2>5, <2>6 DEF Progress
  <2>8. pos'[c] + taken'[c] <= MsgLen
    BY <2>2 DEF Progress
  <2>9. /\ sock'[c] = "connected" => link'[c] # "idle"
        /\ link'[c] # "fin"
        /\ ~(taken'[c] > 0)
    BY <2>1, <2>5 DEF Progress
  <2> QED
    BY <2>3, <2>4, <2>7, <2>8, <2>9, Zenon DEF Progress
<1>6. CASE SendLost(c, Up)
  <2>1. ~Alive(c, Up)' /\ taken'[c] = 0 /\ pos'[c] + 0 <= MsgLen
    BY <1>0, <1>6 DEF SendLost, Alive, kernelVars, Progress
  <2>2. /\ cpc'[c] \in {"send", "read"}
        /\ cpc'[c] = "send" => pos'[c] < MsgLen /\ loop'[c] < MaxLoop
    BY <1>6, LoopKeeps DEF SendLost, Progress
  <2> QED BY <1>6, <2>1, <2>2 DEF SendLost, Progress, kernelVars
<1>7. CASE SendFails(c, Up)
  <2>1. ~Alive(c, Up)' /\ taken'[c] = 0 /\ pos'[c] = pos[c]
    BY <1>0, <1>7 DEF SendFails, Alive, kernelVars
  <2>2. /\ cpc'[c] \in {"send", "read"}
        /\ cpc'[c] = "send" => pos'[c] < MsgLen /\ loop'[c] < MaxLoop
    BY <1>7, LoopKeeps DEF SendFails, Progress
  <2> QED BY <1>7, <2>1, <2>2 DEF SendFails, Progress, kernelVars
<1>8. CASE SigPipe(c, Up) \/ Read(c, Up)
  BY <1>0, <1>8 DEF SigPipe, Read, Goto, Progress, Alive, kernelVars
<1>9. CASE Close(c, Up)
  BY <1>0, <1>9 DEF Close, HangUp, Goto, Progress, Alive, kernelVars
<1>10. CASE Kill(c, Up)
  <2>1. cpc'[c] = "killed" /\ UNCHANGED <<sock, pos, taken, loop, wire>>
    BY <1>10 DEF Kill, Goto
  <2>2. CASE UNCHANGED link
    BY <1>0, <2>1, <2>2 DEF Progress, Alive
  <2>3. CASE PeerClose(c)
    <3>1. link'[c] = "fin"
      BY <2>3 DEF PeerClose, PeerEnd, Inv1, TypeOK, KernelTypeOK
    <3> QED BY <2>1, <3>1 DEF Progress, Alive
  <2> QED BY <1>10, <2>2, <2>3 DEF Kill, HangUp, kernelVars
<1> QED
  BY <1>1, <1>2, <1>3, <1>4, <1>5, <1>6, <1>7, <1>8, <1>9, <1>10 DEF Main

LEMMA OthersUntouched ==
    ASSUME ClientTypeOK, Inv1, NEW c \in Client, NEW d \in Client, c # d,
           Main(c, Up) \/ Kill(c, Up)
    PROVE  /\ UNCHANGED <<cpc[d], sock[d], pos[d], taken[d], loop[d], wire[d]>>
           /\ link'[d] = link[d]
<1> USE DEF ClientTypeOK, Inv1, TypeOK, KernelTypeOK, Goto, kernelVars
<1>1. ASSUME LoopCondition(c) PROVE cpc'[d] = cpc[d] /\ loop'[d] = loop[d]
  BY <1>1 DEF LoopCondition
<1>2. CASE SendReturns(c) \/ SendLost(c, Up) \/ SendFails(c, Up)
  BY <1>1, <1>2 DEF SendReturns, SendLost, SendFails
<1>3. CASE Socket(c) \/ Connects(c, Up) \/ ConnectFails(c, Up)
  BY <1>3 DEF Socket, Connects, ConnectFails, Connect
<1>4. CASE SendTakes(c, Up) \/ SigPipe(c, Up) \/ Read(c, Up)
  BY <1>4 DEF SendTakes, PeerSend, SigPipe, Read
<1>5. CASE Close(c, Up) \/ Kill(c, Up)
  BY <1>5 DEF Close, Kill, HangUp, PeerClose, PeerEnd
<1> QED BY <1>2, <1>3, <1>4, <1>5 DEF Main

\* The invariant of the clients, on top of the first layer of the pipeline.
THEOREM ClientInvariant == BaseSpec => []ClientInv
<1>1. BaseInit => ClientInv
  <2> SUFFICES ASSUME BaseInit PROVE ClientInv
    OBVIOUS
  <2>1. <<>> \in Seq(1..MsgLen)
    BY EmptySeq
  <2>2. ClientTypeOK
    BY <2>1 DEF BaseInit, ClientInit, ClientTypeOK
  <2>3. ASSUME NEW c \in Client PROVE Progress(c)
    BY DEF BaseInit, Init, KernelInit, ClientInit, Progress, Alive
  <2> QED BY <2>2, <2>3 DEF BaseInit, MainInit, MainTypeOK, ClientInv
<1>2. Inv1 /\ ClientInv /\ [BaseNext]_baseVars => ClientInv'
  <2> SUFFICES ASSUME Inv1, ClientInv, [BaseNext]_baseVars PROVE ClientInv'
    OBVIOUS
  <2> USE DEF ClientInv
  <2>1. CASE AcceptThread \/ ReadThread
    <3>1. UNCHANGED <<clientVars, mainVars>> /\ (Server \/ Reader) /\ Up
      BY <2>1 DEF AcceptThread, ReadThread, Runs
    <3>2. \A c \in Client : Progress(c)'
      BY <3>1, ThreadsEndLinks, OtherProgress DEF clientVars
    <3> QED
      BY <3>1, <3>2 DEF clientVars, mainVars, ClientTypeOK, MainTypeOK
  <2>2. CASE MainThread \/ ProcessEnds
    <3>1. UNCHANGED <<vars, clientVars>>
      BY <2>2 DEF MainThread, ProcessEnds
    <3>2. Up' => Up
      BY <2>2, <3>1
      DEF MainThread, ProcessEnds, StartUp, Fork, Exec, MakePipe, StartThread,
          ScanfReturns, Up, vars, readerVars
    <3>3. \A c \in Client : Progress(c)'
      BY <3>1, <3>2, OtherProgress DEF clientVars, vars, kernelVars
    <3>4. MainTypeOK'
      BY <2>2
      DEF MainThread, ProcessEnds, StartUp, Fork, Exec, MakePipe, StartThread,
          ScanfReturns, MainTypeOK
    <3> QED BY <3>1, <3>3, <3>4 DEF clientVars, ClientTypeOK
  <2>3. ASSUME NEW c \in Client, ClientRuns(c) \/ ClientKilled(c)
        PROVE  ClientInv'
    <3>1. /\ Main(c, Up) \/ Kill(c, Up)
          /\ UNCHANGED <<mainVars, mpc, rpc>>
      BY <2>3 DEF ClientRuns, ClientKilled, mainVars, readerVars
    <3>2. ClientTypeOK'
      BY <3>1, ClientType
    <3>3. Progress(c)'
      BY <3>1, <3>2, OwnProgress
    <3>4. ASSUME NEW d \in Client, d # c PROVE Progress(d)'
      BY <3>1, <3>4, OthersUntouched, OtherProgress DEF Up
    <3> QED BY <3>1, <3>2, <3>3, <3>4 DEF mainVars, MainTypeOK
  <2>4. CASE UNCHANGED baseVars
    <3>1. \A c \in Client : Progress(c)'
      BY <2>4, OtherProgress
      DEF baseVars, clientVars, mainVars, vars, kernelVars, readerVars, Up
    <3> QED
      BY <2>4, <3>1
      DEF baseVars, clientVars, mainVars, ClientTypeOK, MainTypeOK
  <2> QED BY <2>1, <2>2, <2>3, <2>4 DEF BaseNext
<1>3. ImplementsPipeline => Spec
  BY DEF ImplementsPipeline, Spec
<1> QED
  BY <1>1, <1>2, <1>3, BaseRefines, FirstLayer, PTL DEF BaseSpec

\* Every variable of the programs keeps its type.
THEOREM BaseTypes == BaseSpec => []BaseTypeOK
  BY ClientInvariant, BaseInherits, PTL DEF ClientInv, BaseTypeOK

\* A client that waits for the reply has sent the whole message, in order.
THEOREM MessageIsWhole == BaseSpec => []WholeMessage
<1>1. ClientInv => WholeMessage
  <2> SUFFICES ASSUME ClientInv, NEW c \in Client, cpc[c] = "read", Alive(c, Up)
               PROVE  wire[c] = [i \in 1..MsgLen |-> i]
    BY DEF WholeMessage
  <2>1. pos[c] = MsgLen /\ taken[c] = 0
    BY DEF ClientInv, Progress, ClientTypeOK
  <2>2. pos[c] + taken[c] = MsgLen
    BY <2>1
  <2> QED BY <2>2 DEF ClientInv, Progress
<1> QED BY <1>1, ClientInvariant, PTL

\* No client hangs up of its own accord while the server is there.
THEOREM HangUpsAreKills == BaseSpec => []OnlyTheKilledHangUp
<1>1. ClientInv => OnlyTheKilledHangUp
  BY DEF ClientInv, Progress, OnlyTheKilledHangUp
<1> QED BY <1>1, ClientInvariant, PTL

\* The safety part of the claim that the send loop ends: no step in it is for
\* nothing, for a client without a socket or without a server either.
THEOREM SendLoopWindsDown == BaseSpec => EveryTryCounts
<1> DEFINE Counts(c) == \/ loop'[c] > loop[c]
                        \/ loop'[c] = loop[c] /\ taken'[c] > taken[c]
<1>1. ASSUME Inv1, ClientInv, [BaseNext]_baseVars, NEW c \in Client,
             cpc[c] = "send", cpc'[c] = "send", Sending(c)' # Sending(c)
      PROVE  Counts(c)
  <2>1. PICK d \in Client : Main(d, Up) \/ Kill(d, Up)
    <3>1. ~UNCHANGED clientVars
      BY <1>1 DEF Sending, clientVars
    <3> QED
      BY <1>1, <3>1
      DEF BaseNext, AcceptThread, ReadThread, MainThread, ProcessEnds,
          ClientRuns, ClientKilled, baseVars
  <2>2. c = d
    BY <1>1, <2>1, OthersUntouched DEF Sending, ClientInv
  <2>3. /\ Main(c, Up) \/ Kill(c, Up)
        /\ ClientTypeOK /\ Progress(c) /\ loop[c] < MaxLoop
    BY <1>1, <2>1, <2>2 DEF ClientInv, Progress
  <2>4. loop[c] \in Nat /\ taken[c] \in Nat /\ cpc \in [Client -> {"socket",
          "connect", "send", "read", "close", "done", "killed"}]
    BY <2>3 DEF ClientTypeOK
  <2>5. CASE SendTakes(c, Up)
    <3>1. taken'[c] = taken[c] + 1 /\ loop'[c] = loop[c]
      BY <2>3, <2>5 DEF SendTakes, ClientTypeOK
    <3> QED BY <2>4, <3>1
  <2>6. CASE SendReturns(c) \/ SendLost(c, Up) \/ SendFails(c, Up)
    <3>1. LoopCondition(c)
      BY <2>6 DEF SendReturns, SendLost, SendFails
    <3>2. pos' \in [Client -> 0..MsgLen]
      BY <2>3, <2>6, SMTT(40) DEF SendReturns, SendLost, SendFails, ClientTypeOK, Progress
    <3>3. loop'[c] = loop[c] + 1
      BY <1>1, <2>3, <3>1, <3>2, LoopKeeps
    <3> QED BY <2>4, <3>3
  <2>7. CASE Kill(c, Up) \/ SigPipe(c, Up)
    <3>1. cpc'[c] = "killed"
      BY <2>4, <2>7 DEF Kill, SigPipe, Goto
    <3> QED BY <1>1, <3>1
  <2> QED
    BY <1>1, <2>3, <2>5, <2>6, <2>7
    DEF Main, Socket, Connects, ConnectFails, Read, Close
<1>2. Inv1 /\ ClientInv /\ [BaseNext]_baseVars =>
         [\A c \in Client :
             cpc[c] = "send" /\ cpc'[c] = "send" /\ Sending(c)' # Sending(c) =>
                 Counts(c)]_baseVars
  BY <1>1
<1>3. ImplementsPipeline => Spec
  BY DEF ImplementsPipeline, Spec
<1> QED
  BY <1>2, <1>3, BaseRefines, FirstLayer, ClientInvariant, PTL
  DEF BaseSpec, EveryTryCounts

=============================================================================
