----------------------------- MODULE EpollClaims -----------------------------
(***************************************************************************)
(* What the comments of the two epoll classes say of them.  The code does  *)
(* not keep these claims; each is refuted by a run of its own.             *)
(***************************************************************************)
EXTENDS EpollPipeline

\* Peers that always have something more to send.
TalkSpec == FairSpec /\ \A c \in Client : WF_vars(PeerSend(c) /\ UNCHANGED <<serverVars, readerVars>>)

\* epoll_reader.cpp:71, "handle all the events that occurred": the reader
\* leaves its event loop after the last event of the batch only.  (The code
\* breaks out of the loop after an error and after an end of file, and the
\* events behind, being edge-triggered, are lost.)
AllEventsHandled ==
    [][(rpc = "events" /\ rpc' = "pipe") => Cardinality(batch) = 1]_vars

\* epoll_reader.cpp:71 again: an event of a registered connection is handled
\* at some time.  (The code looks at its epoll instance only after a message
\* came through the pipe, that is after another connection was accepted.)
EventsLookedAt == \A f \in FD : (f \in edge) ~> (f \notin edge)

=============================================================================
