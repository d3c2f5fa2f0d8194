---------------------------- MODULE Rot13Props ----------------------------
(***************************************************************************)
(* What the rot13 server promises.                                         *)
(***************************************************************************)
EXTENDS Rot13

ReplyByte == {rot13_char(b) : b \in Byte} \cup {LF}

\* Nothing but ROT13 and line ends leaves the server.
TypeOK ==
    /\ acceptq \in Seq(Client)
    /\ bev \in [FD -> Client \cup {None}]
    /\ input \in [FD -> Seq(Byte)]
    /\ output \in [FD -> Seq(ReplyByte)]
    /\ sent \in [Client -> Seq(Byte)]
    /\ nread \in [Client -> Nat]
    /\ got \in [Client -> Seq(ReplyByte)]
    /\ ended \in [Client -> {"new", "no", "eof", "rst", "closed"}]
    /\ limit \in Limits

\* The reply to a stream, byte by byte: a line ends at LF or at MAX_LINE bytes.
AnswerByte(a, b) ==
    IF b = LF
    THEN [line |-> <<>>, reply |-> a.reply \o rot13(a.line) \o <<LF>>]
    ELSE IF Len(a.line) + 1 < MAX_LINE
    THEN [a EXCEPT !.line = Append(@, b)]
    ELSE [line |-> <<>>, reply |-> a.reply \o rot13(Append(a.line, b)) \o <<LF>>]

\* AnswerAfter(s)[i] is the state of the reply after the first i bytes of s.
AnswerAfter(s) ==
    LET after[i \in 0..Len(s)] ==
            IF i = 0 THEN [line |-> <<>>, reply |-> <<>>]
            ELSE AnswerByte(after[i - 1], s[i])
    IN  after

Answer(s) == AnswerAfter(s)[Len(s)]

\* The reply to what the server has read from c.
Answered(c) == Answer(SubSeq(sent[c], 1, nread[c]))

\* What a peer gets depends on the bytes it sent and on nothing else: not on
\* how TCP and libevent cut them into reads, nor on other peers, nor on who had
\* the descriptor before.  Written and pending output together are the reply
\* to what was read, and the input holds the line that is not complete.  What
\* bufferevent_free() drops is the end of the reply, never a part before it.
ReplyIndependentOfChunks ==
    /\ \A f \in FD : bev[f] # None =>
           LET a == Answered(bev[f])
           IN  input[f] = a.line /\ got[bev[f]] \o output[f] = a.reply
    /\ \A c \in Client : ended[c] = "closed" =>
           IsPrefix(got[c], Answered(c).reply)

\* main.cpp:57, "so that the buffer doesn't grow infinitely long": between
\* callbacks the input is below the high watermark, at which libevent would
\* stop reading.
InputBelowWatermark == \A f \in FD : Len(input[f]) < MAX_LINE

\* main.cpp:65 writes to an output that has no watermark, and a peer may never
\* read.  What the server holds for it, or has sent it, is what it has read,
\* none of it dropped, and at most one line end more for every MAX_LINE bytes.
ReplyIsNotAmplified ==
    \A f \in FD : bev[f] # None =>
        LET c == bev[f]
            extra == Len(got[c]) + Len(output[f]) + Len(input[f]) - nread[c]
        IN  extra >= 0 /\ extra * MAX_LINE <= nread[c]

\* The server has an open connection that it has not read to the end, or that
\* its peer has ended.
Pending(c) ==
    /\ c \notin Range(acceptq) /\ ended[c] # "closed"
    /\ Unread(c) # <<>> \/ ended[c] \in {"eof", "rst"}

\* All that a peer sends is read in the end, and a connection that its peer has
\* ended is closed, however long the line that it left incomplete, and however
\* often accept() fails meanwhile.  The accept queue empties, also of several
\* connections that came at once, because the listener's event is persistent and
\* level-triggered: but only if the open connections do not hold all descriptors
\* for ever, as do_accept() then fails again and again.
NothingStaysPending ==
    /\ \A c \in Client : []<>~Pending(c)
    /\ []<>(FreeFds # {}) => []<>(acceptq = <<>>)

=============================================================================
