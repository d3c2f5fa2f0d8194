--------------------------- MODULE ConnectionLife ---------------------------
(***************************************************************************)
(* What becomes of a connection to the epoll server, without descriptor    *)
(* numbers: it waits to be accepted, is held by the accept thread, goes    *)
(* through the pipe to the reader, is watched there, and is closed.  Each  *)
(* connection goes this way once, in the order of arrival, and can leave   *)
(* it only by being closed, by the one that has it at that moment.         *)
(***************************************************************************)
EXTENDS Sequences, Functions

CONSTANTS Client, Nobody

VARIABLES
    waiting,    \* connections not accepted yet, oldest first
    accepted,   \* the one the accept thread has, or Nobody
    passing,    \* those in the pipe
    taken,      \* the one the reader has taken out of the pipe, or Nobody
    watched,    \* those registered with the reader's epoll
    closed

lifeVars == <<waiting, accepted, passing, taken, watched, closed>>

Init ==
    /\ waiting = <<>> /\ accepted = Nobody
    /\ passing = <<>> /\ taken = Nobody
    /\ watched = {} /\ closed = {}

\* The connections that have come.
Known == Range(waiting) \cup Range(passing) \cup {accepted, taken} \cup watched \cup closed

Arrive(c) ==
    /\ c \notin Known
    /\ waiting' = Append(waiting, c)
    /\ UNCHANGED <<accepted, passing, taken, watched, closed>>

Accept ==
    /\ waiting # <<>> /\ accepted = Nobody
    /\ accepted' = Head(waiting)
    /\ waiting' = Tail(waiting)
    /\ UNCHANGED <<passing, taken, watched, closed>>

\* The accept thread hands its connection over, or gives it up.
Pass ==
    /\ accepted # Nobody
    /\ accepted' = Nobody
    /\ \/ passing' = Append(passing, accepted) /\ UNCHANGED closed
       \/ closed' = closed \cup {accepted} /\ UNCHANGED passing
    /\ UNCHANGED <<waiting, taken, watched>>

Take ==
    /\ passing # <<>> /\ taken = Nobody
    /\ taken' = Head(passing)
    /\ passing' = Tail(passing)
    /\ UNCHANGED <<waiting, accepted, watched, closed>>

\* The reader watches what it has taken, or gives it up.
Watch ==
    /\ taken # Nobody
    /\ taken' = Nobody
    /\ \/ watched' = watched \cup {taken} /\ UNCHANGED closed
       \/ closed' = closed \cup {taken} /\ UNCHANGED watched
    /\ UNCHANGED <<waiting, accepted, passing>>

Close(c) ==
    /\ c \in watched
    /\ watched' = watched \ {c}
    /\ closed' = closed \cup {c}
    /\ UNCHANGED <<waiting, accepted, passing, taken>>

Next ==
    \/ Accept \/ Pass \/ Take \/ Watch
    \/ \E c \in Client : Arrive(c) \/ Close(c)

Spec == Init /\ [][Next]_lifeVars

=============================================================================
