------------------------------ MODULE CThread ------------------------------
(***************************************************************************)
(* src/src/thread_unix.cpp: one CThread object whose start() and join()    *)
(* several threads of the program may call.  pc[u] is where user u is in   *)
(* join().  The code that the standard leaves undefined, a second join of  *)
(* one thread, has here the outcomes that the C library gives it: it fails *)
(* at once, or waits for a later thread that was given the same identity.  *)
(***************************************************************************)
EXTENDS Integers

CONSTANTS
    User,       \* the threads that call
    Tid,        \* the pthread_t values of the threads that are created
    MilliSecs,  \* the arguments of the timed join()
    MaxStarts   \* bound: calls of start()

ASSUME ThreadAssumption ==
    /\ Tid \subseteq Nat \ {0}
    /\ MilliSecs \subseteq Nat
    /\ MaxStarts \in Nat

VARIABLES
    tid,
    threadStatus,
    pc,
    target,   \* target[u]: the tid that u has passed to pthread_join()
    millisTime,
    k,        \* k[u]: the turns of u's timed join
    thr,      \* thr[t]: "free", "running" run(), or "returned" from it
    starts

vars == <<tid, threadStatus, pc, target, millisTime, k, thr, starts>>
objectVars == <<tid, threadStatus>>
waitVars == <<target, millisTime, k>>

Init ==
    /\ tid = 0
    /\ threadStatus = "NEW"
    /\ pc = [u \in User |-> "idle"]
    /\ target = [u \in User |-> 0]
    /\ millisTime = [u \in User |-> 0]
    /\ k = [u \in User |-> 0]
    /\ thr = [t \in Tid |-> "free"]
    /\ starts = 0

Goto(u, s) == pc' = [pc EXCEPT ![u] = s]

Free == {t \in Tid : thr[t] = "free"}

-----------------------------------------------------------------------------

\* pthread_create() stores the identity of the new thread.  It may fail after
\* it has done so; no caller learns of that, as start() returns no value.
Start(u) ==
    /\ pc[u] = "idle"
    /\ starts < MaxStarts
    /\ starts' = starts + 1
    /\ \/ \E t \in Free : tid' = t /\ thr' = [thr EXCEPT ![t] = "running"]
       \/ tid' \in Free \cup {tid} /\ UNCHANGED thr
    /\ UNCHANGED <<threadStatus, pc, waitVars>>

\* thread_proxy_func(): the thread calls run() and ends.  Only run1(), which
\* nothing calls, would assign threadStatus.
RunReturns(t) ==
    /\ thr[t] = "running"
    /\ thr' = [thr EXCEPT ![t] = "returned"]
    /\ UNCHANGED <<objectVars, pc, waitVars, starts>>

Call(u) ==
    /\ pc[u] = "idle"
    /\ \/ Goto(u, "join") /\ UNCHANGED millisTime
       \/ \E m \in MilliSecs :
             Goto(u, "timed") /\ millisTime' = [millisTime EXCEPT ![u] = m]
    /\ UNCHANGED <<objectVars, target, k, thr, starts>>

\* Mutant of Join: the status is tested in place of the identity.
JoinByStatus(u) ==
    /\ pc[u] = "join"
    /\ IF threadStatus # "RUNNING" THEN Goto(u, "idle") /\ UNCHANGED target
       ELSE Goto(u, "pthread_join") /\ target' = [target EXCEPT ![u] = tid]
    /\ UNCHANGED <<objectVars, millisTime, k, thr, starts>>

\* Mutant of Join: the test is missing.
JoinUnchecked(u) ==
    /\ pc[u] = "join"
    /\ Goto(u, "pthread_join") /\ target' = [target EXCEPT ![u] = tid]
    /\ UNCHANGED <<objectVars, millisTime, k, thr, starts>>

\* Mutant of Join: it waits for the status that run1() would set.
JoinSpins(u) ==
    /\ pc[u] = "join"
    /\ threadStatus = "EXIT"
    /\ Goto(u, "idle")
    /\ UNCHANGED <<objectVars, waitVars, thr, starts>>

\* join(): nothing to wait for, or pthread_join(tid).
Join(u) ==
    /\ pc[u] = "join"
    /\ IF tid > 0
       THEN Goto(u, "pthread_join") /\ target' = [target EXCEPT ![u] = tid]
       ELSE Goto(u, "idle") /\ UNCHANGED target
    /\ UNCHANGED <<objectVars, millisTime, k, thr, starts>>

\* Mutant of TimedJoin: k keeps the turns of the join before.
TimedJoinUnreset(u) ==
    /\ pc[u] = "timed"
    /\ IF tid = 0 THEN Goto(u, "idle")
       ELSE IF millisTime[u] = 0 THEN Goto(u, "join") ELSE Goto(u, "poll")
    /\ UNCHANGED <<objectVars, waitVars, thr, starts>>

\* join(millisTime), up to its loop.
TimedJoin(u) ==
    /\ pc[u] = "timed"
    /\ IF tid = 0 THEN Goto(u, "idle")
       ELSE IF millisTime[u] = 0 THEN Goto(u, "join") ELSE Goto(u, "poll")
    /\ k' = [k EXCEPT ![u] = 0]
    /\ UNCHANGED <<objectVars, target, millisTime, thr, starts>>

\* A turn of the loop, or its end.
Poll(u) ==
    /\ pc[u] = "poll"
    /\ IF threadStatus # "EXIT" /\ k[u] <= millisTime[u]
       THEN k' = [k EXCEPT ![u] = @ + 1] /\ UNCHANGED pc
       ELSE Goto(u, "idle") /\ UNCHANGED k
    /\ UNCHANGED <<objectVars, target, millisTime, thr, starts>>

\* u waits for thread t in pthread_join().
Waiting(u, t) == pc[u] = "waiting" /\ target[u] = t

\* pthread_join() fails for a thread that is gone (ESRCH) or that another
\* waits for (EINVAL), else it starts to wait.
PthreadJoin(u) ==
    /\ pc[u] = "pthread_join"
    /\ IF target[u] \in Free \/ \E v \in User : Waiting(v, target[u])
       THEN Goto(u, "idle") ELSE Goto(u, "waiting")
    /\ UNCHANGED <<objectVars, waitVars, thr, starts>>

\* pthread_join() has its thread, whose identity is free again.
Joined(u) ==
    /\ pc[u] = "waiting"
    /\ thr[target[u]] = "returned"
    /\ thr' = [thr EXCEPT ![target[u]] = "free"]
    /\ Goto(u, "idle")
    /\ UNCHANGED <<objectVars, waitVars, starts>>

Step(u) ==
    Join(u) \/ TimedJoin(u) \/ Poll(u) \/ PthreadJoin(u) \/ Joined(u)

Next ==
    \/ \E u \in User : Start(u) \/ Call(u) \/ Step(u)
    \/ \E t \in Tid : RunReturns(t)

Spec == Init /\ [][Next]_vars

\* Users inside a function go on; no run() needs to return.
FairSpec == Spec /\ \A u \in User : WF_vars(Step(u))

-----------------------------------------------------------------------------

InJoin == {"join", "pthread_join", "waiting"}

\* pthread_join() is never given the 0 that tid has before start().
TypeOK ==
    /\ tid \in Tid \cup {0}
    /\ threadStatus \in {"NEW", "RUNNING", "EXIT"}
    /\ pc \in [User -> InJoin \cup {"idle", "timed", "poll"}]
    /\ target \in [User -> Tid \cup {0}]
    /\ \A u \in User : pc[u] \in {"pthread_join", "waiting"} => target[u] \in Tid
    /\ millisTime \in [User -> MilliSecs \cup {0}]
    /\ k \in [User -> Nat]
    /\ thr \in [Tid -> {"free", "running", "returned"}]
    /\ starts \in 0..MaxStarts

\* The thread that u's join() is about.
Joins(u) == IF pc[u] = "join" THEN tid ELSE target[u]

\* u's join() returns although its thread is running.
LeavesEarly(u) ==
    /\ pc[u] \in InJoin /\ pc'[u] = "idle"
    /\ Joins(u) # 0 /\ thr[Joins(u)] = "running"

\* thread_unix.h:37, "wait until the thread exits": join() returns with the
\* object's thread still running only if another user is waiting for that
\* thread, in which case pthread_join() refuses.
JoinWaits ==
    [][\A u \in User : LeavesEarly(u) =>
          \E v \in User \ {u} : Waiting(v, Joins(u))]_vars

\* If every thread returns from run(), every join() returns, with a time or
\* without, also one that waits for a later thread with its thread's former
\* identity.
JoinReturns ==
    (\A t \in Tid : []<>(thr[t] # "running"))
        => \A u \in User : (pc[u] # "idle") ~> (pc[u] = "idle")

\* thread_unix.h:39 promises to "wait until the thread exits or the time is
\* over".  The loop keeps neither half: no code that runs assigns
\* threadStatus, so that it does not notice a thread that has ended, and as a
\* turn is usleep(100) it leaves a running one after about a tenth of millisTime.
\* What a join() with a time is: a pause of millisTime + 1 turns, whatever the
\* threads and the other users of the object do.
TimedJoinIsAPause ==
    [][\A u \in User : pc[u] = "poll" /\ pc'[u] # "poll" =>
          k[u] = millisTime[u] + 1]_vars

=============================================================================
