------------------------------- MODULE Rot13 -------------------------------
(***************************************************************************)
(* src/rot13/main.cpp: a server on libevent that answers every line with   *)
(* its ROT13.  One thread runs all callbacks, one at a time; what libevent *)
(* and the kernel do between them is modelled here from how the program    *)
(* configures them.  Bytes are numbers.                                    *)
(***************************************************************************)
EXTENDS Integers, FiniteSetsExt, SequencesExt

CONSTANTS
    Client,      \* the peers; each connects once
    None,
    Byte,        \* the bytes that peers send
    MAX_LINE,
    FD_SETSIZE,
    MaxFd,       \* bound: descriptors are numbered 1..MaxFd
    Limits,      \* how many of them the process may be allowed to have
    MaxSent      \* bound: bytes that all peers send together

ASSUME Rot13Assumption ==
    /\ None \notin Client
    /\ Byte \subseteq 0..255
    /\ MAX_LINE \in Nat \ {0}
    /\ FD_SETSIZE \in Nat /\ MaxFd \in Nat /\ MaxSent \in Nat
    /\ Limits \subseteq 0..MaxFd

FD == 1..MaxFd
LF == 10

VARIABLES
    acceptq,   \* connections that wait for accept()
    bev,       \* bev[f]: the client whose bufferevent owns descriptor f
    input,     \* the buffers of each bufferevent
    output,
    sent,      \* what each peer has sent
    nread,     \* how much of it the server has read
    got,       \* what the server has written to each peer's socket
    ended,     \* "no", "eof" or "rst": what the peer did last
               \* "closed": the server has closed the connection
    limit      \* how many descriptors the process may have, RLIMIT_NOFILE

vars == <<acceptq, bev, input, output, sent, nread, got, ended, limit>>

Init ==
    /\ acceptq = <<>>
    /\ bev = [f \in FD |-> None]
    /\ input = [f \in FD |-> <<>>]
    /\ output = [f \in FD |-> <<>>]
    /\ sent = [c \in Client |-> <<>>]
    /\ nread = [c \in Client |-> 0]
    /\ got = [c \in Client |-> <<>>]
    /\ ended = [c \in Client |-> "new"]
    /\ limit \in Limits

-----------------------------------------------------------------------------
(* The peers.                                                              *)

Connect(c) ==
    /\ ended[c] = "new"
    /\ ended' = [ended EXCEPT ![c] = "no"]
    /\ acceptq' = Append(acceptq, c)
    /\ UNCHANGED <<bev, input, output, sent, nread, got, limit>>

Send(c, b) ==
    /\ ended[c] = "no"
    /\ MapThenSumSet(LAMBDA d : Len(sent[d]), Client) < MaxSent
    /\ sent' = [sent EXCEPT ![c] = Append(@, b)]
    /\ UNCHANGED <<acceptq, bev, input, output, nread, got, ended, limit>>

\* The peer shuts its side down, or resets the connection.
End(c, how) ==
    /\ ended[c] \in {"no", "eof"} /\ how # ended[c]
    /\ ended' = [ended EXCEPT ![c] = how]
    /\ UNCHANGED <<acceptq, bev, input, output, sent, nread, got, limit>>

-----------------------------------------------------------------------------
(* The callbacks.                                                          *)

rot13_char(c) ==
    IF c \in 97..109 \cup 65..77 THEN c + 13
    ELSE IF c \in 110..122 \cup 78..90 THEN c - 13
    ELSE c

rot13(s) == [i \in DOMAIN s |-> rot13_char(s[i])]

\* Where the last complete line of s ends.
LastLf(s) == SelectLastInSeq(s, LAMBDA b : b = LF)

\* Mutant of readcb: a buffer that has just reached MAX_LINE is kept.
readcbStrict(s) ==
    LET n == LastLf(s)
        lines == SubSeq(s, 1, n)
        rest == SubSeq(s, n + 1, Len(s))
    IN  IF Len(rest) > MAX_LINE
        THEN [keep |-> <<>>, add |-> rot13(lines \o rest) \o <<LF>>]
        ELSE [keep |-> rest, add |-> rot13(lines)]

\* Mutant of readcb: the overlong rest is passed on as it is.
readcbPlain(s) ==
    LET n == LastLf(s)
        lines == SubSeq(s, 1, n)
        rest == SubSeq(s, n + 1, Len(s))
    IN  IF Len(rest) >= MAX_LINE
        THEN [keep |-> <<>>, add |-> rot13(lines) \o rest \o <<LF>>]
        ELSE [keep |-> rest, add |-> rot13(lines)]

\* Mutant of readcb: an incomplete line is never waited for.
readcbEager(s) ==
    IF s = <<>> THEN [keep |-> s, add |-> s]
    ELSE [keep |-> <<>>, add |-> rot13(s) \o <<LF>>]

\* What readcb() leaves in an input buffer that holds s, and adds to the
\* output: the complete lines, each with its "\n", then all the rest and a
\* "\n" if the rest is too long to wait for its end.
readcb(s) ==
    LET n == LastLf(s)
        lines == SubSeq(s, 1, n)
        rest == SubSeq(s, n + 1, Len(s))
    IN  IF Len(rest) >= MAX_LINE
        THEN [keep |-> <<>>, add |-> rot13(lines \o rest) \o <<LF>>]
        ELSE [keep |-> rest, add |-> rot13(lines)]

\* A reset discards what the server has not read.
Unread(c) ==
    IF ended[c] = "rst" THEN <<>> ELSE SubSeq(sent[c], nread[c] + 1, Len(sent[c]))

\* Mutant of Room: do_accept() sets no watermark.
RoomUnlimited(f) == Len(sent[bev[f]])

\* The high watermark of EV_READ: how much libevent may add to the input.
Room(f) == MAX_LINE - Len(input[f])

\* The socket is readable: libevent reads some of it and calls readcb().
Read(f) ==
    /\ bev[f] # None
    /\ \E k \in 1..Min({Len(Unread(bev[f])), Room(f)}) :
          LET c == bev[f]
              r == readcb(input[f] \o SubSeq(Unread(c), 1, k))
          IN  /\ input' = [input EXCEPT ![f] = r.keep]
              /\ output' = [output EXCEPT ![f] = @ \o r.add]
              /\ nread' = [nread EXCEPT ![c] = @ + k]
    /\ UNCHANGED <<acceptq, bev, sent, got, ended, limit>>

\* The socket is writable: libevent writes some of the output.
Write(f) ==
    /\ bev[f] # None /\ ended[bev[f]] # "rst"
    /\ \E k \in 1..Len(output[f]) :
          /\ got' = [got EXCEPT ![bev[f]] = @ \o SubSeq(output[f], 1, k)]
          /\ output' = [output EXCEPT ![f] = SubSeq(@, k + 1, Len(@))]
    /\ UNCHANGED <<acceptq, bev, input, sent, nread, ended, limit>>

\* bufferevent_free() with BEV_OPT_CLOSE_ON_FREE: descriptor and buffers go,
\* the output that was not written yet among them.
bufferevent_free(f) ==
    /\ bev' = [bev EXCEPT ![f] = None]
    /\ input' = [input EXCEPT ![f] = <<>>]
    /\ output' = [output EXCEPT ![f] = <<>>]

\* read() returns 0 or fails: libevent calls errorcb().  It reads only while
\* the input is below its watermark.
errorcb(f) ==
    /\ bev[f] # None
    /\ Unread(bev[f]) = <<>> /\ ended[bev[f]] \in {"eof", "rst"}
    /\ Room(f) > 0
    /\ bufferevent_free(f)
    /\ ended' = [ended EXCEPT ![bev[f]] = "closed"]
    /\ UNCHANGED <<acceptq, sent, nread, got, limit>>

FreeFds == {f \in 1..limit : bev[f] = None}

\* Mutant of do_accept: the listener's event is not persistent.
do_acceptOnce ==
    /\ acceptq # <<>>
    /\ \A f \in FD : bev[f] = None
    /\ \A c \in Client : ended[c] # "closed"
    /\ acceptq' = Tail(acceptq)
    /\ bev' = [bev EXCEPT ![1] = Head(acceptq)]
    /\ UNCHANGED <<input, output, sent, nread, got, ended, limit>>

\* accept() takes the lowest free descriptor.
do_accept ==
    /\ acceptq # <<>>
    /\ \E f \in FreeFds :
          /\ \A g \in FreeFds : f <= g
          /\ IF f > FD_SETSIZE
             THEN /\ ended' = [ended EXCEPT ![Head(acceptq)] = "closed"]
                  /\ UNCHANGED bev
             ELSE /\ bev' = [bev EXCEPT ![f] = Head(acceptq)]
                  /\ UNCHANGED ended
    /\ acceptq' = Tail(acceptq)
    /\ UNCHANGED <<input, output, sent, nread, got, limit>>

\* accept() fails, for want of a descriptor or of memory, and that is printed.
\* The connection stays queued and the listener readable: the event comes again.
do_acceptFails ==
    /\ acceptq # <<>>
    /\ UNCHANGED vars

-----------------------------------------------------------------------------

Peer(c) ==
    \/ Connect(c)
    \/ \E b \in Byte : Send(c, b)
    \/ \E how \in {"eof", "rst"} : End(c, how)

Next ==
    \/ \E c \in Client : Peer(c)
    \/ do_accept \/ do_acceptFails
    \/ \E f \in FD : Read(f) \/ Write(f) \/ errorcb(f)

Spec == Init /\ [][Next]_vars

\* event_base_dispatch() runs every callback whose event is pending.  Whether
\* the output can be written is up to the peer, which may never read.  As long
\* as a descriptor is free accept() does not fail for ever.
FairSpec ==
    /\ Spec
    /\ WF_vars(do_accept)
    /\ \A f \in FD : WF_vars(Read(f)) /\ WF_vars(errorcb(f))

=============================================================================
