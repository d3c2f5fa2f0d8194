----------------------------- MODULE CEventProps -----------------------------
(***************************************************************************)
(* What CEvent keeps to, and two claims of event.h that it does not.       *)
(***************************************************************************)
EXTENDS CEvent

\* Every path through Wait(), Set() and Reset(), the early return of Wait()
\* and the time spent in pthread_cond_timedwait() included, takes the mutex
\* before it touches m_bNotify and gives it back: a thread holds the mutex
\* exactly while it is at a statement between lock and unlock.
MutexBalanced == \A t \in Thread : m_mutex = t <=> pc[t] \in Critical

\* No wake-up is lost: while the event is set nobody sleeps, except for the
\* moment between the assignment in Set() and its broadcast.  (A thread that
\* found the event not set is asleep before a Set() can get in.)
NoStrandedSleeper ==
    m_bNotify => Asleep = {} \/ \E t \in Thread : pc[t] = "broadcast"

\* Every Wait() returns, when the others have stopped calling: no thread keeps
\* the mutex, and no wake-up without a cause keeps a waiter for good.
EveryWaitReturns == \A t \in Thread : (pc[t] \in Undecided) ~> pc[t] = "idle"

\* The answer a thread is about to return, or returned last.
Answered(t) ==
    IF pc[t] # "wunlock" THEN result[t]
    ELSE IF ret[t] = "0" THEN "EVENT_OK" ELSE "EVENT_TIMEOUT"

\* CEvent implements ManualEvent: the answer is settled at the test of
\* m_bNotify, or when the sleep or the call that should sleep gives up.
Abstract == INSTANCE ManualEvent WITH
    isSet <- m_bNotify,
    waiting <- {t \in Thread : pc[t] \in Undecided},
    answer <- [t \in Thread |-> Answered(t)]

\* Every behaviour of the code is one of ManualEvent: EVENT_OK is returned
\* only for an event that was set while the caller was in Wait(), never for a
\* wake-up without a cause or one that a Reset() has overtaken.
ImplementsManualEvent == Abstract!Spec

-----------------------------------------------------------------------------
(* Refuted.                                                                *)

Returns(t) == pc[t] = "wunlock" /\ pc'[t] = "idle"

\* event.h:9, "EVENT_OK: an event has occurred": a Wait() on an event that is
\* set already, which has no reason to sleep, returns EVENT_OK.  (The code
\* starts with ret = -1 and returns EVENT_TIMEOUT.)
SetMeansOk ==
    [][\A t \in Thread : Returns(t) /\ ret[t] = "-1" => result'[t] = "EVENT_OK"]_vars

\* event.h:10, "EVENT_TIMEOUT: the waiting time is over": a Wait() for an event
\* that is not set returns EVENT_TIMEOUT when its time is over.  (Unless tv_nsec
\* carries: pthread_cond_timedwait() then returns EINVAL at once.)
TimeoutMeansDue ==
    [][\A t \in Thread :
          Returns(t) /\ ret[t] # "-1" /\ result'[t] = "EVENT_TIMEOUT" => Due(t)]_vars

=============================================================================
