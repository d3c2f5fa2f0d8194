----------------------------- MODULE TcpClient -----------------------------
(***************************************************************************)
(* src/client/client.cpp: the program that connects to the epoll server,   *)
(* sends one message and waits for a reply.  Client c is one process; cpc  *)
(* names the call of main() that comes next.  The parameter up says        *)
(* whether the server's process is there.                                  *)
(***************************************************************************)
EXTENDS Kernel

CONSTANTS
    MsgLen,    \* len, the units of the message
    MaxLoop    \* the tries of the send loop, 1000

\* The message fits into the buffers, as its 16 bytes do, and the loop has a
\* try for each of its units.
ASSUME ClientAssumption ==
    /\ MsgLen \in 1..RcvBuf
    /\ MaxLoop \in Nat /\ MsgLen <= MaxLoop

VARIABLES
    cpc,     \* where main() is
    sock,    \* its socket: "none" is -1, "reset" has reported its error
    pos,     \* units of the message that send() has said it has taken
    taken,   \* units that the running send() has taken so far
    loop,    \* failed passes of the loop condition
    wire     \* which units of buf went onto the connection, in order

clientVars == <<cpc, sock, pos, taken, loop, wire>>

ClientTypeOK ==
    /\ cpc \in [Client ->
          {"socket", "connect", "send", "read", "close", "done", "killed"}]
    /\ sock \in [Client -> {"none", "unconnected", "connected", "reset"}]
    /\ pos \in [Client -> 0..MsgLen]
    /\ taken \in [Client -> 0..MsgLen]
    /\ loop \in [Client -> 0..MaxLoop]
    /\ wire \in [Client -> Seq(1..MsgLen)]

ClientInit ==
    /\ cpc = [c \in Client |-> "socket"]
    /\ sock = [c \in Client |-> "none"]
    /\ pos = [c \in Client |-> 0]
    /\ taken = [c \in Client |-> 0]
    /\ loop = [c \in Client |-> 0]
    /\ wire = [c \in Client |-> <<>>]

\* c's connection has both its ends.
Alive(c, up) == up /\ sock[c] = "connected" /\ link[c] = "open"

Goto(c, at) == cpc' = [cpc EXCEPT ![c] = at]

-----------------------------------------------------------------------------

\* The result of socket() is not looked at.
Socket(c) ==
    /\ cpc[c] = "socket"
    /\ Goto(c, "connect")
    /\ \/ sock' = [sock EXCEPT ![c] = "unconnected"]
       \/ UNCHANGED sock
    /\ UNCHANGED <<pos, taken, loop, wire, kernelVars>>

\* Mutant of Connects: the client reads a greeting first.
ConnectsThenReads(c, up) ==
    /\ cpc[c] = "connect" /\ sock[c] = "unconnected" /\ up
    /\ Connect(c)
    /\ sock' = [sock EXCEPT ![c] = "connected"]
    /\ Goto(c, "read")
    /\ UNCHANGED <<pos, taken, loop, wire>>

\* connect() succeeds.
Connects(c, up) ==
    /\ cpc[c] = "connect" /\ sock[c] = "unconnected" /\ up
    /\ Connect(c)
    /\ sock' = [sock EXCEPT ![c] = "connected"]
    /\ Goto(c, "send")
    /\ UNCHANGED <<pos, taken, loop, wire>>

\* connect() fails, refused or, with a full queue, timed out; its result is
\* not looked at.
ConnectFails(c, up) ==
    /\ cpc[c] = "connect"
    /\ sock[c] = "none" \/ ~up \/ listener # "port" \/ Len(acceptq) > Backlog
    /\ Goto(c, "send")
    /\ UNCHANGED <<sock, pos, taken, loop, wire, kernelVars>>

-----------------------------------------------------------------------------
(* The send loop.                                                          *)

\* while (pos < len && ++loop < 1000)
LoopCondition(c) ==
    IF pos'[c] < MsgLen
    THEN /\ loop' = [loop EXCEPT ![c] = @ + 1]
         /\ Goto(c, IF loop[c] + 1 < MaxLoop THEN "send" ELSE "read")
    ELSE UNCHANGED loop /\ Goto(c, "read")

\* Mutant of SendTakes: send(sock, buf, ...), every try from the beginning.
SendTakesFromStart(c, up) ==
    /\ cpc[c] = "send" /\ Alive(c, up)
    /\ pos[c] + taken[c] < MsgLen
    /\ PeerSend(c)
    /\ wire' = [wire EXCEPT ![c] = Append(@, taken[c] + 1)]
    /\ taken' = [taken EXCEPT ![c] = @ + 1]
    /\ UNCHANGED <<cpc, sock, pos, loop>>

\* Mutant of SendTakes: send(sock, buf + pos, len, ...) runs past the message.
SendTakesTooMuch(c, up) ==
    /\ cpc[c] = "send" /\ Alive(c, up)
    /\ rx' = [rx EXCEPT ![c] = @ + MsgLen]
    /\ taken' = [taken EXCEPT ![c] = MsgLen - pos[c]]
    /\ UNCHANGED <<cpc, sock, pos, loop, wire, link, listener, listenEdge,
                   acceptq, file, interest, edge, pipe>>

\* The running send(sock, buf + pos, len - pos) passes a unit on.
SendTakes(c, up) ==
    /\ cpc[c] = "send" /\ Alive(c, up)
    /\ pos[c] + taken[c] < MsgLen
    /\ PeerSend(c)
    /\ wire' = [wire EXCEPT ![c] = Append(@, pos[c] + taken[c] + 1)]
    /\ taken' = [taken EXCEPT ![c] = @ + 1]
    /\ UNCHANGED <<cpc, sock, pos, loop>>

\* send() returns how much it has taken: all, or less after an interruption
\* or an error.
SendReturns(c) ==
    /\ cpc[c] = "send" /\ taken[c] > 0
    /\ pos' = [pos EXCEPT ![c] = @ + taken[c]]
    /\ taken' = [taken EXCEPT ![c] = 0]
    /\ LoopCondition(c)
    /\ UNCHANGED <<sock, wire, kernelVars>>

\* Before the server's reset has come, send() takes what nobody will read.
SendLost(c, up) ==
    /\ cpc[c] = "send" /\ sock[c] = "connected" /\ ~Alive(c, up)
    /\ taken[c] = 0
    /\ \E n \in 1..MsgLen - pos[c] : pos' = [pos EXCEPT ![c] = @ + n]
    /\ LoopCondition(c)
    /\ UNCHANGED <<sock, taken, wire, kernelVars>>

\* Mutant of SendFails: a failed send() is repeated without counting.
SendFailsUncounted(c, up) ==
    /\ cpc[c] = "send" /\ taken[c] = 0
    /\ \/ sock[c] = "none"
       \/ sock[c] = "connected" /\ ~Alive(c, up)
    /\ sock' = [sock EXCEPT ![c] = IF @ = "none" THEN @ ELSE "reset"]
    /\ UNCHANGED <<cpc, pos, taken, loop, wire, kernelVars>>

\* send() returns -1, with EBADF or, once, with the reset of the connection:
\* nothing is done and the loop goes round.
SendFails(c, up) ==
    /\ cpc[c] = "send" /\ taken[c] = 0
    /\ \/ sock[c] = "none"
       \/ sock[c] = "connected" /\ ~Alive(c, up)
    /\ sock' = [sock EXCEPT ![c] = IF @ = "none" THEN @ ELSE "reset"]
    /\ UNCHANGED pos
    /\ LoopCondition(c)
    /\ UNCHANGED <<taken, wire, kernelVars>>

\* EPIPE: on a socket that is not, or no longer, connected SIGPIPE ends the
\* process.
SigPipe(c, up) ==
    /\ cpc[c] = "send" /\ taken[c] = 0
    /\ sock[c] # "none" /\ ~Alive(c, up)
    /\ Goto(c, "killed")
    /\ UNCHANGED <<sock, pos, taken, loop, wire, kernelVars>>

-----------------------------------------------------------------------------

\* Mutant of Read: read() is repeated until there is a reply.
ReadUntilReply(c, up) == FALSE

\* Mutant of Read: a socket with O_NONBLOCK.
ReadNonBlocking(c, up) ==
    /\ cpc[c] = "read"
    /\ Goto(c, "close")
    /\ UNCHANGED <<sock, pos, taken, loop, wire, kernelVars>>

\* read() waits on a connection that has both its ends, as the server never
\* writes to one.  Without one it returns 0 or -1 and buffer is printed as it
\* is, uninitialized.
Read(c, up) ==
    /\ cpc[c] = "read" /\ ~Alive(c, up)
    /\ Goto(c, "close")
    /\ UNCHANGED <<sock, pos, taken, loop, wire, kernelVars>>

\* close(sock): the server's end of the connection gets to know of it.
HangUp(c, up) ==
    IF Alive(c, up) THEN PeerClose(c) ELSE UNCHANGED kernelVars

Close(c, up) ==
    /\ cpc[c] = "close"
    /\ HangUp(c, up)
    /\ Goto(c, "done")
    /\ UNCHANGED <<sock, pos, taken, loop, wire>>

\* The user ends the client, at any time.
Kill(c, up) ==
    /\ cpc[c] \notin {"socket", "done", "killed"}
    /\ HangUp(c, up)
    /\ Goto(c, "killed")
    /\ UNCHANGED <<sock, pos, taken, loop, wire>>

\* The program's own steps.
Main(c, up) ==
    \/ Socket(c) \/ Connects(c, up) \/ ConnectFails(c, up)
    \/ SendTakes(c, up) \/ SendReturns(c) \/ SendLost(c, up)
    \/ SendFails(c, up) \/ SigPipe(c, up)
    \/ Read(c, up) \/ Close(c, up)

=============================================================================
