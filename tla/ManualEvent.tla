----------------------------- MODULE ManualEvent -----------------------------
(***************************************************************************)
(* What CEvent (src/src/event.h) gives its callers: an event that stays    *)
(* set until it is reset.  A Wait() is answered EVENT_OK only at a moment  *)
(* when the event is set; it may be answered EVENT_TIMEOUT at any moment.  *)
(* Setting and resetting take effect at once, for all threads.             *)
(***************************************************************************)
CONSTANT Thread

VARIABLES
    isSet,
    waiting,    \* the threads in Wait() that have no answer yet
    answer      \* the last answer each thread got

vars == <<isSet, waiting, answer>>

Init ==
    /\ isSet = FALSE
    /\ waiting = {}
    /\ answer = [t \in Thread |-> "none"]

Wait(t) ==
    /\ t \notin waiting
    /\ waiting' = waiting \cup {t}
    /\ UNCHANGED <<isSet, answer>>

Answer(t, a) ==
    /\ t \in waiting
    /\ a = "EVENT_OK" => isSet
    /\ waiting' = waiting \ {t}
    /\ answer' = [answer EXCEPT ![t] = a]
    /\ UNCHANGED isSet

SetTo(b) == isSet' = b /\ UNCHANGED <<waiting, answer>>

Next ==
    \/ \E b \in BOOLEAN : SetTo(b)
    \/ \E t \in Thread :
          Wait(t) \/ \E a \in {"EVENT_OK", "EVENT_TIMEOUT"} : Answer(t, a)

Spec == Init /\ [][Next]_vars

=============================================================================
