------------------------------- MODULE BaseCom -------------------------------
(***************************************************************************)
(* The programs together: the process of base/main.cpp with its two epoll  *)
(* threads, and the clients of client/client.cpp in place of arbitrary     *)
(* peers.  When the server's process has ended, the kernel's variables     *)
(* keep what they were at that moment.                                     *)
(***************************************************************************)
EXTENDS EpollPipeline, TcpClient, BaseMain

baseVars == <<vars, clientVars, mainVars>>

BaseInit == Init /\ ClientInit /\ MainInit

\* The server's process is there.
Up == mpc # "gone" /\ rpc # "exit"

\* A thread runs from its pthread_create() to the end of the process.
Runs(thread) == Up /\ thread \in started

AcceptThread ==
    /\ Runs("epSvr")
    /\ Server
    /\ UNCHANGED <<readerVars, clientVars, mainVars>>

ReadThread ==
    /\ Runs("pr")
    /\ Reader
    /\ UNCHANGED <<serverVars, clientVars, mainVars>>

MainThread == StartUp /\ UNCHANGED <<vars, clientVars>>

ProcessEnds == ScanfReturns /\ UNCHANGED <<vars, clientVars>>

ClientRuns(c) == Main(c, Up) /\ UNCHANGED <<serverVars, readerVars, mainVars>>

ClientKilled(c) == Kill(c, Up) /\ UNCHANGED <<serverVars, readerVars, mainVars>>

BaseNext ==
    \/ AcceptThread \/ ReadThread \/ MainThread \/ ProcessEnds
    \/ \E c \in Client : ClientRuns(c) \/ ClientKilled(c)

BaseSpec == BaseInit /\ [][BaseNext]_baseVars

\* The operating system runs every thread and every client.  Nobody has to
\* type the input that ends the server, or to kill a client.
FairBaseSpec ==
    /\ BaseSpec
    /\ WF_baseVars(AcceptThread)
    /\ WF_baseVars(ReadThread)
    /\ WF_baseVars(MainThread)
    /\ \A c \in Client : WF_baseVars(ClientRuns(c))

-----------------------------------------------------------------------------

BaseTypeOK == TypeOK /\ ClientTypeOK /\ MainTypeOK

\* The programs together are one of the behaviours of EpollPipeline, whose
\* threads start at any time and whose peers are arbitrary: what holds there,
\* holds here.
ImplementsPipeline == Init /\ [][Next]_vars

\* However send() cuts the message up, a client that goes on to read() with
\* its connection intact has sent every unit of it once and in order.
WholeMessage ==
    \A c \in Client :
        cpc[c] = "read" /\ Alive(c, Up) => wire[c] = [i \in 1..MsgLen |-> i]

\* Client and server wait for each other: the end of file that makes the
\* reader close a connection never comes from a client that has run to its
\* end, only from one that was killed.
OnlyTheKilledHangUp == \A c \in Client : link[c] = "fin" => cpc[c] = "killed"

\* What a client has done with its message.
Sending(c) == <<sock[c], pos[c], taken[c], loop[c], wire[c]>>

\* A client that stays in the send loop gets on in it, whatever has become of
\* its socket or of the server: with each of its steps it uses up one of its
\* tries, or passes on one more unit in the running one.  There are MaxLoop
\* tries and MsgLen units.
EveryTryCounts ==
    [][\A c \in Client :
          cpc[c] = "send" /\ cpc'[c] = "send" /\ Sending(c)' # Sending(c) =>
              \/ loop'[c] > loop[c]
              \/ loop'[c] = loop[c] /\ taken'[c] > taken[c]]_baseVars

\* The send loop is left, also by a client that has no socket, each of whose
\* tries fails at once.
SendLoopEnds == \A c \in Client : (cpc[c] = "send") ~> (cpc[c] # "send")

\* The blocking read() of the accept thread holds up all other connections:
\* these clients send before they wait, or end, so that it always returns.
AcceptThreadIsFreed == (spc = "read" /\ Up) ~> (spc # "read" \/ ~Up)

\* When the server's process ends, no client stays behind: neither one that
\* waits in read(), nor one that is still in the accept queue or the pipe.
ClientsEndWithServer ==
    \A c \in Client :
        (~Up /\ cpc[c] # "socket") ~> (cpc[c] \in {"done", "killed"})

=============================================================================
