-------------------------------- MODULE CEvent --------------------------------
(***************************************************************************)
(* src/src/event.cpp: an event that stays set until it is reset, made of a *)
(* mutex, a condition variable and a flag, with any number of threads in   *)
(* Wait(), Set() and Reset() at a time.  pc[t] is the statement thread t   *)
(* executes next.  Time is counted in ticks, Second of them to a second.   *)
(***************************************************************************)
EXTENDS Integers, FiniteSets, Functions

CONSTANTS
    Thread,
    NoThread,   \* "the mutex is free"
    MilliSecs,  \* the arguments of Wait(), in ticks, also negative ones
    Second,     \* ticks in a second: where tv_nsec must carry into tv_sec
    LastCall,   \* bound: calls begin before this time
    MaxTime     \* bound: the clock stops at this time

ASSUME EventAssumption ==
    /\ NoThread \notin Thread
    /\ MilliSecs \subseteq Int
    /\ Second \in Nat \ {0}
    /\ LastCall \in Nat /\ MaxTime \in Nat

VARIABLES
    pc,
    m_mutex,    \* the thread that holds the mutex
    m_bNotify,
    abstime,    \* abstime[t]: the deadline of t's Wait()
    ret,        \* ret[t]: what pthread_cond_timedwait() returned; -1 at first
    result,     \* result[t]: what t's last Wait() returned
    now

vars == <<pc, m_mutex, m_bNotify, abstime, ret, result, now>>

AbsTime == [tv_sec : Int, tv_nsec : Int]

\* Statements of Wait() before its answer is settled, and statements between
\* pthread_mutex_lock() and pthread_mutex_unlock().
Undecided == {"wlock", "test", "sleep", "asleep", "woken"}
Critical == {"test", "sleep", "wunlock", "set", "broadcast", "reset", "unlock"}

TypeOK ==
    /\ pc \in [Thread -> Undecided \cup Critical \cup {"idle", "slock", "rlock"}]
    /\ m_mutex \in Thread \cup {NoThread}
    /\ m_bNotify \in BOOLEAN
    /\ abstime \in [Thread -> AbsTime]
    /\ ret \in [Thread -> {"-1", "0", "ETIMEDOUT", "EINVAL"}]
    /\ result \in [Thread -> {"none", "EVENT_OK", "EVENT_TIMEOUT"}]
    /\ now \in Nat

Init ==
    /\ pc = [t \in Thread |-> "idle"]
    /\ m_mutex = NoThread
    /\ m_bNotify = FALSE
    /\ abstime = [t \in Thread |-> [tv_sec |-> 0, tv_nsec |-> 0]]
    /\ ret = [t \in Thread |-> "-1"]
    /\ result = [t \in Thread |-> "none"]
    /\ now = 0

Goto(t, s) == pc' = [pc EXCEPT ![t] = s]

-----------------------------------------------------------------------------
(* What the threads call.                                                  *)

\* / and % of C: the quotient is rounded towards 0.
Quotient(a, b) == IF a >= 0 THEN a \div b ELSE -((-a) \div b)
Remainder(a, b) == a - b * Quotient(a, b)

\* The nanoseconds are added without a carry into the seconds, or a borrow.
CallWait(t, millSec) ==
    /\ pc[t] = "idle"
    /\ abstime' = [abstime EXCEPT ![t] =
           [tv_sec |-> Quotient(now, Second) + Quotient(millSec, Second),
            tv_nsec |-> Remainder(now, Second) + Remainder(millSec, Second)]]
    /\ ret' = [ret EXCEPT ![t] = "-1"]
    /\ Goto(t, "wlock")
    /\ UNCHANGED <<m_mutex, m_bNotify, result, now>>

\* Mutant of CallSet: Set() does not take the mutex.
CallSetUnlocked(t) ==
    /\ pc[t] = "idle"
    /\ Goto(t, "set")
    /\ UNCHANGED <<m_mutex, m_bNotify, abstime, ret, result, now>>

CallSet(t) ==
    /\ pc[t] = "idle"
    /\ Goto(t, "slock")
    /\ UNCHANGED <<m_mutex, m_bNotify, abstime, ret, result, now>>

CallReset(t) ==
    /\ pc[t] = "idle"
    /\ Goto(t, "rlock")
    /\ UNCHANGED <<m_mutex, m_bNotify, abstime, ret, result, now>>

Call(t) ==
    /\ now < LastCall
    /\ \/ \E millSec \in MilliSecs : CallWait(t, millSec)
       \/ CallSet(t)
       \/ CallReset(t)

-----------------------------------------------------------------------------
(* The mutex and the condition variable.                                   *)

\* Mutant of Resumed: `if' in place of `while' around the wait.
ResumedOnce(t) == "wunlock"

\* Where a Wait() goes on that was woken and has the mutex back.
Resumed(t) == IF ret[t] = "0" THEN "test" ELSE "wunlock"

\* pthread_mutex_lock(), and the return from pthread_cond_timedwait().
Acquire(t) ==
    /\ m_mutex = NoThread
    /\ m_mutex' = t
    /\ \/ pc[t] = "wlock" /\ Goto(t, "test")
       \/ pc[t] = "woken" /\ Goto(t, Resumed(t))
       \/ pc[t] = "slock" /\ Goto(t, "set")
       \/ pc[t] = "rlock" /\ Goto(t, "reset")
    /\ UNCHANGED <<m_bNotify, abstime, ret, result, now>>

\* pthread_mutex_unlock() at the end of Set() and Reset().
Release(t) ==
    /\ pc[t] = "unlock"
    /\ m_mutex' = NoThread
    /\ Goto(t, "idle")
    /\ UNCHANGED <<m_bNotify, abstime, ret, result, now>>

\* while (!m_bNotify)
Test(t) ==
    /\ pc[t] = "test"
    /\ Goto(t, IF m_bNotify THEN "wunlock" ELSE "sleep")
    /\ UNCHANGED <<m_mutex, m_bNotify, abstime, ret, result, now>>

Due(t) == now >= abstime[t].tv_sec * Second + abstime[t].tv_nsec

\* pthread_cond_timedwait() gives up the mutex and sleeps, or refuses, with
\* the mutex still held, a tv_nsec that is negative or a second or more.
Sleep(t) ==
    /\ pc[t] = "sleep"
    /\ IF abstime[t].tv_nsec \in 0..Second - 1
       THEN m_mutex' = NoThread /\ Goto(t, "asleep") /\ UNCHANGED ret
       ELSE /\ ret' = [ret EXCEPT ![t] = "EINVAL"]
            /\ Goto(t, "wunlock")
            /\ UNCHANGED m_mutex
    /\ UNCHANGED <<m_bNotify, abstime, result, now>>

\* The sleep ends when the time is over, or for no reason at all before.
Wake(t) ==
    /\ pc[t] = "asleep"
    /\ ret' = [ret EXCEPT ![t] = IF Due(t) THEN "ETIMEDOUT" ELSE "0"]
    /\ Goto(t, "woken")
    /\ UNCHANGED <<m_mutex, m_bNotify, abstime, result, now>>

\* Mutant of Return: the early return leaves the mutex locked.
ReturnLocked(t) ==
    /\ pc[t] = "wunlock"
    /\ m_mutex' = IF ret[t] \in {"ETIMEDOUT", "EINVAL"} THEN t ELSE NoThread
    /\ result' = [result EXCEPT ![t] =
                     IF ret[t] = "0" THEN "EVENT_OK" ELSE "EVENT_TIMEOUT"]
    /\ Goto(t, "idle")
    /\ UNCHANGED <<m_bNotify, abstime, ret, now>>

\* Mutant of Return: the value myEvent starts with is returned.
ReturnInitial(t) ==
    /\ pc[t] = "wunlock"
    /\ m_mutex' = NoThread
    /\ result' = [result EXCEPT ![t] =
                     IF ret[t] = "0" THEN "EVENT_OK" ELSE "EVENT_FAILED"]
    /\ Goto(t, "idle")
    /\ UNCHANGED <<m_bNotify, abstime, ret, now>>

\* pthread_mutex_unlock() and the return from Wait(): anything but a sleep
\* that was ended by a wake-up counts as a time-out.
Return(t) ==
    /\ pc[t] = "wunlock"
    /\ m_mutex' = NoThread
    /\ result' = [result EXCEPT ![t] =
                     IF ret[t] = "0" THEN "EVENT_OK" ELSE "EVENT_TIMEOUT"]
    /\ Goto(t, "idle")
    /\ UNCHANGED <<m_bNotify, abstime, ret, now>>

SetFlag(t) ==
    /\ pc[t] = "set"
    /\ m_bNotify' = TRUE
    /\ Goto(t, "broadcast")
    /\ UNCHANGED <<m_mutex, abstime, ret, result, now>>

Asleep == {u \in Thread : pc[u] = "asleep"}

\* pthread_cond_broadcast(): all that sleep wake up.
Broadcast(t) ==
    /\ pc[t] = "broadcast"
    /\ pc' = [u \in Thread |-> IF u = t THEN "unlock"
                               ELSE IF u \in Asleep THEN "woken" ELSE pc[u]]
    /\ ret' = [u \in Thread |-> IF u \in Asleep THEN "0" ELSE ret[u]]
    /\ UNCHANGED <<m_mutex, m_bNotify, abstime, result, now>>

ResetFlag(t) ==
    /\ pc[t] = "reset"
    /\ m_bNotify' = FALSE
    /\ Goto(t, "unlock")
    /\ UNCHANGED <<m_mutex, abstime, ret, result, now>>

Step(t) ==
    \/ Acquire(t) \/ Release(t) \/ Test(t) \/ Sleep(t) \/ Return(t)
    \/ SetFlag(t) \/ Broadcast(t) \/ ResetFlag(t)

Tick ==
    /\ now < MaxTime
    /\ now' = now + 1
    /\ UNCHANGED <<pc, m_mutex, m_bNotify, abstime, ret, result>>

Next == Tick \/ \E t \in Thread : Call(t) \/ Step(t) \/ Wake(t)

Spec == Init /\ [][Next]_vars

\* Threads inside a function go on, the clock runs and a sleep that is over
\* ends; nobody needs to call, or to be woken before its time.
FairSpec ==
    /\ Spec
    /\ WF_vars(Tick)
    /\ \A t \in Thread : WF_vars(Step(t)) /\ WF_vars(Due(t) /\ Wake(t))

=============================================================================
