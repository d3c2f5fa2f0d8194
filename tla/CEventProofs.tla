----------------------------- MODULE CEventProofs -----------------------------
(***************************************************************************)
(* Proofs, for any number of threads and any times, that CEvent keeps its  *)
(* mutex balanced, loses no wake-up and implements ManualEvent.            *)
(***************************************************************************)
EXTENDS CEventProps, TLAPS

\* The invariant that is inductive: what holds at the wait itself is added,
\* that a thread about to sleep has seen the event not set and that this is
\* still so, because it has held the mutex ever since.
EventInv ==
    /\ TypeOK
    /\ MutexBalanced
    /\ NoStrandedSleeper
    /\ \A t \in Thread : pc[t] = "sleep" => ~m_bNotify

LEMMA Division ==
    ASSUME NEW a \in Int, NEW b \in Nat \ {0}
    PROVE  Quotient(a, b) \in Int /\ Remainder(a, b) \in Int
<1>1. Quotient(a, b) \in Int
  BY DEF Quotient
<1> QED BY <1>1 DEF Remainder

LEMMA CallType ==
    ASSUME TypeOK, NEW t \in Thread, Call(t) PROVE TypeOK'
<1> USE EventAssumption DEF EventAssumption, TypeOK
<1>1. ASSUME NEW millSec \in MilliSecs, CallWait(t, millSec) PROVE TypeOK'
  <2> DEFINE s == Quotient(now, Second) + Quotient(millSec, Second)
             n == Remainder(now, Second) + Remainder(millSec, Second)
  <2>1. s \in Int /\ n \in Int
    BY Division
  <2> HIDE DEF s, n
  <2>2. [tv_sec |-> s, tv_nsec |-> n] \in AbsTime
    BY <2>1 DEF AbsTime
  <2>3. abstime' = [abstime EXCEPT ![t] = [tv_sec |-> s, tv_nsec |-> n]]
    BY <1>1 DEF CallWait, s, n
  <2>4. abstime' \in [Thread -> AbsTime]
    BY <2>2, <2>3
  <2> QED BY <1>1, <2>4 DEF CallWait, Goto, Undecided
<1>2. CASE CallSet(t) \/ CallReset(t)
  BY <1>2 DEF CallSet, CallReset, Goto
<1> QED BY <1>1, <1>2 DEF Call

LEMMA StepType ==
    ASSUME TypeOK, NEW t \in Thread, Step(t) \/ Wake(t) PROVE TypeOK'
<1> USE DEF TypeOK, Goto, Undecided, Critical
<1>1. CASE Acquire(t)
  BY <1>1 DEF Acquire, Resumed
<1>2. CASE Release(t) \/ Test(t)
  BY <1>2 DEF Release, Test
<1>3. CASE Sleep(t)
  BY <1>3 DEF Sleep
<1>4. CASE Return(t)
  BY <1>4 DEF Return
<1>5. CASE SetFlag(t) \/ ResetFlag(t)
  BY <1>5 DEF SetFlag, ResetFlag
<1>6. CASE Broadcast(t)
  BY <1>6 DEF Broadcast
<1>7. CASE Wake(t)
  BY <1>7 DEF Wake
<1> QED BY <1>1, <1>2, <1>3, <1>4, <1>5, <1>6, <1>7 DEF Step

\* What a thread does outside the mutex, and the clock, keep the rest of the
\* invariant.
LEMMA CallKeeps ==
    ASSUME EventInv, TypeOK', NEW t \in Thread, Call(t) \/ Wake(t)
    PROVE  EventInv'
<1> USE DEF EventInv, TypeOK, Goto, Critical, MutexBalanced, NoStrandedSleeper,
            Asleep
<1>1. CASE Call(t)
  BY <1>1 DEF Call, CallWait, CallSet, CallReset
<1>2. CASE Wake(t)
  BY <1>2 DEF Wake
<1> QED BY <1>1, <1>2

LEMMA StepKeeps ==
    ASSUME EventInv, TypeOK', NEW t \in Thread, Step(t) PROVE EventInv'
<1> USE EventAssumption
    DEF EventAssumption, EventInv, TypeOK, Goto, Critical, MutexBalanced,
        NoStrandedSleeper, Asleep
<1>1. CASE Acquire(t)
  BY <1>1 DEF Acquire, Resumed
<1>2. CASE Release(t)
  BY <1>2 DEF Release
<1>3. CASE Test(t)
  BY <1>3 DEF Test
<1>4. CASE Sleep(t)
  BY <1>4 DEF Sleep
<1>5. CASE Return(t)
  BY <1>5 DEF Return
<1>6. CASE SetFlag(t)
  BY <1>6 DEF SetFlag
<1>7. CASE Broadcast(t)
  BY <1>7 DEF Broadcast
<1>8. CASE ResetFlag(t)
  BY <1>8 DEF ResetFlag
<1> QED BY <1>1, <1>2, <1>3, <1>4, <1>5, <1>6, <1>7, <1>8 DEF Step

\* The invariant holds in every reachable state.
THEOREM EventInvariant == Spec => []EventInv
<1>1. Init => EventInv
  <2> SUFFICES ASSUME Init PROVE EventInv
    OBVIOUS
  <2>1. abstime \in [Thread -> AbsTime]
    BY DEF Init, AbsTime
  <2>2. TypeOK
    BY <2>1 DEF Init, TypeOK
  <2>3. MutexBalanced
    BY EventAssumption DEF EventAssumption, Init, MutexBalanced, Critical
  <2> QED BY <2>2, <2>3 DEF Init, EventInv, NoStrandedSleeper
<1>2. EventInv /\ [Next]_vars => EventInv'
  <2> SUFFICES ASSUME EventInv, [Next]_vars PROVE EventInv'
    OBVIOUS
  <2>1. CASE Tick
    BY <2>1
    DEF Tick, EventInv, TypeOK, MutexBalanced, NoStrandedSleeper, Asleep
  <2>2. ASSUME NEW t \in Thread, Call(t) \/ Wake(t) PROVE EventInv'
    BY <2>2, CallType, StepType, CallKeeps DEF EventInv
  <2>3. ASSUME NEW t \in Thread, Step(t) PROVE EventInv'
    BY <2>3, StepType, StepKeeps DEF EventInv
  <2>4. CASE UNCHANGED vars
    BY <2>4
    DEF vars, EventInv, TypeOK, MutexBalanced, NoStrandedSleeper, Asleep
  <2> QED BY <2>1, <2>2, <2>3, <2>4 DEF Next
<1> QED BY <1>1, <1>2, PTL DEF Spec

\* Each path through the three functions takes and gives back the mutex.
THEOREM AlwaysBalanced == Spec => []MutexBalanced
  BY EventInvariant, PTL DEF EventInv

\* Every thread is at a place of the code, with its variables in their types.
THEOREM EventTypes == Spec => []TypeOK
  BY EventInvariant, PTL DEF EventInv

\* No wake-up is lost.
THEOREM NobodyStranded == Spec => []NoStrandedSleeper
  BY EventInvariant, PTL DEF EventInv

-----------------------------------------------------------------------------
(* The refinement.                                                         *)

\* A thread's move that settles no answer and leaves the event alone is no
\* step of ManualEvent.
Stutters == UNCHANGED <<m_bNotify, {t \in Thread : pc[t] \in Undecided},
                        [t \in Thread |-> Answered(t)]>>

LEMMA InitRefines == Init => Abstract!Init
  BY DEF Init, Abstract!Init, Undecided, Answered

\* The thread t moves from s1 to s2 and nothing else of what ManualEvent
\* looks at changes.
LEMMA Moves ==
    ASSUME TypeOK, NEW t \in Thread, NEW s, Goto(t, s),
           (s \in Undecided) <=> (pc[t] \in Undecided),
           Answered(t)' = Answered(t),
           UNCHANGED m_bNotify,
           \A u \in Thread \ {t} : ret'[u] = ret[u] /\ result'[u] = result[u]
    PROVE  Stutters
<1>1. \A u \in Thread : pc'[u] = IF u = t THEN s ELSE pc[u]
  BY DEF Goto, TypeOK
<1>2. {u \in Thread : pc[u] \in Undecided}' = {u \in Thread : pc[u] \in Undecided}
  BY <1>1
<1>3. \A u \in Thread : Answered(u)' = Answered(u)
  BY <1>1 DEF Answered
<1> QED BY <1>2, <1>3 DEF Stutters

\* A Wait() whose answer is settled: EVENT_OK if a wake-up ended its sleep and
\* it has found the event set since.
LEMMA Settles ==
    ASSUME TypeOK, NEW t \in Thread, Goto(t, "wunlock"), pc[t] \in Undecided,
           UNCHANGED <<m_bNotify, result>>,
           ret' \in [Thread -> {"-1", "0", "ETIMEDOUT", "EINVAL"}],
           \A u \in Thread \ {t} : ret'[u] = ret[u],
           ret'[t] = "0" => m_bNotify
    PROVE  Abstract!Next
<1>1. \A u \in Thread : pc'[u] = IF u = t THEN "wunlock" ELSE pc[u]
  BY DEF Goto, TypeOK
<1>2. {u \in Thread : pc[u] \in Undecided}' =
         {u \in Thread : pc[u] \in Undecided} \ {t}
  BY <1>1 DEF Undecided
<1>3. \A u \in Thread \ {t} : Answered(u)' = Answered(u)
  BY <1>1 DEF Answered
<1>4. ASSUME NEW a \in {"EVENT_OK", "EVENT_TIMEOUT"}, Answered(t)' = a,
             a = "EVENT_OK" => m_bNotify
      PROVE  Abstract!Next
  <2>1. [u \in Thread |-> Answered(u)]' =
           [[u \in Thread |-> Answered(u)] EXCEPT ![t] = a]
    BY <1>3, <1>4
  <2>2. Abstract!Answer(t, a)
    BY <1>2, <1>4, <2>1 DEF Abstract!Answer
  <2> QED BY <2>2 DEF Abstract!Next
<1>5. CASE ret'[t] = "0"
  <2>1. Answered(t)' = "EVENT_OK"
    BY <1>1, <1>5 DEF Answered
  <2> QED BY <1>4, <1>5, <2>1
<1>6. CASE ret'[t] # "0"
  <2>1. Answered(t)' = "EVENT_TIMEOUT"
    BY <1>1, <1>6 DEF Answered
  <2> QED BY <1>4, <2>1
<1> QED BY <1>5, <1>6

LEMMA StepRefines ==
    ASSUME TypeOK, NEW t \in Thread, Step(t) \/ Wake(t)
    PROVE  Abstract!Next \/ Stutters
<1>1. CASE Acquire(t)
  <2>1. CASE pc[t] = "woken" /\ Resumed(t) = "wunlock"
    <3>1. ret[t] # "0" /\ Goto(t, "wunlock") /\ UNCHANGED <<m_bNotify, ret, result>>
      BY <1>1, <2>1 DEF Acquire, Resumed
    <3>2. pc[t] \in Undecided /\ ret'[t] # "0"
      BY <2>1, <3>1 DEF Undecided
    <3>3. ret' \in [Thread -> {"-1", "0", "ETIMEDOUT", "EINVAL"}]
      BY <3>1 DEF TypeOK
    <3> QED BY <3>1, <3>2, <3>3, Settles
  <2>2. PICK s : Goto(t, s) /\ <<pc[t], s>> \in
           {<<"wlock", "test">>, <<"woken", Resumed(t)>>,
            <<"slock", "set">>, <<"rlock", "reset">>}
    BY <1>1 DEF Acquire
  <2>3. CASE ~(pc[t] = "woken" /\ Resumed(t) = "wunlock")
    <3>1. \/ pc[t] = "wlock" /\ s = "test"
          \/ pc[t] = "woken" /\ s = "test"
          \/ pc[t] = "slock" /\ s = "set"
          \/ pc[t] = "rlock" /\ s = "reset"
      BY <2>2, <2>3 DEF Resumed
    <3>2. pc'[t] = s /\ UNCHANGED <<m_bNotify, ret, result>>
      BY <1>1, <2>2 DEF Acquire, Goto, TypeOK
    <3>3. Answered(t)' = Answered(t)
      BY <3>1, <3>2 DEF Answered
    <3>4. (s \in Undecided) <=> (pc[t] \in Undecided)
      BY <3>1 DEF Undecided
    <3> QED BY <2>2, <3>2, <3>3, <3>4, Moves
  <2> QED BY <2>1, <2>3
<1>2. CASE Test(t) /\ m_bNotify
  <2>1. Goto(t, "wunlock") /\ UNCHANGED <<m_bNotify, ret, result>>
    BY <1>2 DEF Test
  <2> QED BY <1>2, <2>1, Settles DEF Test, TypeOK, Undecided
<1>3. CASE Sleep(t) /\ ret' # ret
  <2>1. Goto(t, "wunlock") /\ ret' = [ret EXCEPT ![t] = "EINVAL"]
    BY <1>3 DEF Sleep
  <2> QED BY <1>3, <2>1, Settles DEF Sleep, TypeOK, Undecided
<1>4. CASE Return(t)
  <2>1. pc[t] = "wunlock" /\ pc'[t] = "idle" /\ result'[t] = Answered(t)
    BY <1>4 DEF Return, Goto, TypeOK, Answered
  <2>2. Answered(t)' = Answered(t)
    BY <2>1 DEF Answered
  <2> QED BY <1>4, <2>1, <2>2, Moves DEF Return, TypeOK, Undecided
<1>5. CASE Broadcast(t)
  <2>1. \A u \in Thread :
           pc'[u] = IF u = t THEN "unlock"
                    ELSE IF pc[u] = "asleep" THEN "woken" ELSE pc[u]
    BY <1>5 DEF Broadcast, Asleep
  <2>2. \A u \in Thread : ret'[u] = IF pc[u] = "asleep" THEN "0" ELSE ret[u]
    BY <1>5 DEF Broadcast, Asleep
  <2>3. pc[t] = "broadcast" /\ UNCHANGED <<result, m_bNotify>>
    BY <1>5 DEF Broadcast
  <2>4. \A u \in Thread : pc'[u] \in Undecided <=> pc[u] \in Undecided
    BY <2>1, <2>3 DEF Undecided
  <2>5. \A u \in Thread : Answered(u)' = Answered(u)
    BY <2>1, <2>2, <2>3 DEF Answered
  <2> QED BY <2>3, <2>4, <2>5 DEF Stutters
<1>6. CASE Wake(t)
  <2>1. pc[t] = "asleep" /\ pc'[t] = "woken" /\ Goto(t, "woken")
    BY <1>6 DEF Wake, Goto, TypeOK
  <2>2. /\ UNCHANGED <<m_bNotify, result>>
        /\ \A u \in Thread \ {t} : ret'[u] = ret[u]
    BY <1>6 DEF Wake, TypeOK
  <2>3. Answered(t)' = Answered(t)
    BY <2>1, <2>2 DEF Answered
  <2> QED BY <2>1, <2>2, <2>3, Moves DEF Undecided
<1>7. ASSUME NEW s, Goto(t, s), UNCHANGED <<m_bNotify, ret, result>>,
             <<pc[t], s>> \in {<<"unlock", "idle">>, <<"test", "sleep">>,
                              <<"sleep", "asleep">>}
      PROVE  Stutters
  <2>1. pc'[t] = s /\ pc[t] # "wunlock" /\ s # "wunlock"
    BY <1>7 DEF Goto, TypeOK
  <2>2. Answered(t)' = Answered(t)
    BY <1>7, <2>1 DEF Answered
  <2>3. (s \in Undecided) <=> (pc[t] \in Undecided)
    BY <1>7 DEF Undecided
  <2> QED BY <1>7, <2>2, <2>3, Moves
<1>8. CASE SetFlag(t) \/ ResetFlag(t)
  <2>1. PICK s \in {"broadcast", "unlock"}, b \in BOOLEAN :
           /\ Goto(t, s) /\ pc[t] \in {"set", "reset"}
           /\ m_bNotify' = b
           /\ UNCHANGED <<ret, result>>
    BY <1>8 DEF SetFlag, ResetFlag
  <2>2. \A u \in Thread : pc'[u] = IF u = t THEN s ELSE pc[u]
    BY <2>1 DEF Goto, TypeOK
  <2>3. \A u \in Thread : pc'[u] \in Undecided <=> pc[u] \in Undecided
    BY <2>1, <2>2 DEF Undecided
  <2>4. \A u \in Thread : Answered(u)' = Answered(u)
    BY <2>1, <2>2 DEF Answered
  <2> QED BY <2>1, <2>3, <2>4 DEF Abstract!Next, Abstract!SetTo
<1>9. CASE Release(t) \/ (Test(t) /\ ~m_bNotify) \/ (Sleep(t) /\ ret' = ret)
  <2>1. CASE Sleep(t) /\ ret' = ret
    <3>1. CASE Goto(t, "asleep")
      BY <1>7, <2>1, <3>1 DEF Sleep
    <3>2. CASE ret' = [ret EXCEPT ![t] = "EINVAL"] /\ Goto(t, "wunlock")
      BY <2>1, <3>2, Settles DEF Sleep, TypeOK, Undecided
    <3> QED BY <2>1, <3>1, <3>2 DEF Sleep
  <2> QED BY <1>7, <1>9, <2>1 DEF Release, Test
<1> QED
  BY <1>1, <1>2, <1>3, <1>4, <1>5, <1>6, <1>8, <1>9 DEF Step

LEMMA CallRefines ==
    ASSUME TypeOK, NEW t \in Thread, Call(t) PROVE Abstract!Next \/ Stutters
<1>1. ASSUME NEW millSec \in MilliSecs, CallWait(t, millSec)
      PROVE  Abstract!Wait(t)
  <2>1. \A u \in Thread : pc'[u] = IF u = t THEN "wlock" ELSE pc[u]
    BY <1>1 DEF CallWait, Goto, TypeOK
  <2>2. pc[t] = "idle" /\ UNCHANGED <<result, m_bNotify>>
    BY <1>1 DEF CallWait
  <2>3. {u \in Thread : pc[u] \in Undecided}' =
           {u \in Thread : pc[u] \in Undecided} \cup {t}
    BY <2>1 DEF Undecided
  <2>4. t \notin {u \in Thread : pc[u] \in Undecided}
    BY <2>2 DEF Undecided
  <2>5. \A u \in Thread : Answered(u)' = Answered(u)
    BY <1>1, <2>1, <2>2 DEF Answered, CallWait, TypeOK
  <2> QED BY <2>2, <2>3, <2>4, <2>5 DEF Abstract!Wait
<1>2. CASE CallSet(t) \/ CallReset(t)
  <2>1. PICK s \in {"slock", "rlock"} :
           Goto(t, s) /\ pc[t] = "idle" /\ UNCHANGED <<m_bNotify, ret, result>>
    BY <1>2 DEF CallSet, CallReset
  <2>2. Answered(t)' = Answered(t)
    BY <2>1 DEF Answered, Goto, TypeOK
  <2>3. (s \in Undecided) <=> (pc[t] \in Undecided)
    BY <2>1 DEF Undecided
  <2> QED BY <2>1, <2>2, <2>3, Moves
<1> QED BY <1>1, <1>2 DEF Call, Abstract!Next

\* CEvent implements ManualEvent.
THEOREM EventRefines == Spec => ImplementsManualEvent
<1>1. Init => Abstract!Init
  BY InitRefines
<1>2. TypeOK /\ [Next]_vars => [Abstract!Next]_(Abstract!vars)
  <2> SUFFICES ASSUME TypeOK, [Next]_vars
               PROVE  Abstract!Next \/ Stutters
    BY DEF Stutters, Abstract!vars
  <2>1. CASE UNCHANGED vars \/ Tick
    <3>1. UNCHANGED <<pc, ret, result, m_bNotify>>
      BY <2>1 DEF vars, Tick
    <3> QED BY <3>1 DEF Stutters, Answered
  <2> QED BY <2>1, StepRefines, CallRefines DEF Next
<1> QED
  BY <1>1, <1>2, EventInvariant, PTL
  DEF EventInv, Spec, ImplementsManualEvent, Abstract!Spec

=============================================================================
