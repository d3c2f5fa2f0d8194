--------------------------- MODULE CThreadProofs ---------------------------
(***************************************************************************)
(* Proofs, for any number of users, threads and starts, that join() never  *)
(* passes on the identity 0 and never returns before its thread has, and   *)
(* that a join() with a time looks at nothing but its turns.               *)
(***************************************************************************)
EXTENDS CThread, TLAPS

USE ThreadAssumption DEF ThreadAssumption

\* A call, and what a user does in join(), keeps the types.
LEMMA UserType ==
    ASSUME TypeOK, NEW u \in User, Start(u) \/ Call(u) \/ Step(u)
    PROVE  TypeOK'
<1> USE DEF TypeOK, Goto, InJoin, Free, objectVars, waitVars
<1>1. CASE Start(u)
  BY <1>1 DEF Start
<1>2. CASE Call(u)
  BY <1>2 DEF Call
<1>3. CASE Join(u)
  BY <1>3 DEF Join
<1>4. CASE TimedJoin(u)
  BY <1>4 DEF TimedJoin
<1>5. CASE Poll(u)
  BY <1>5 DEF Poll
<1>6. CASE PthreadJoin(u)
  BY <1>6 DEF PthreadJoin
<1>7. CASE Joined(u)
  BY <1>7 DEF Joined
<1> QED BY <1>1, <1>2, <1>3, <1>4, <1>5, <1>6, <1>7 DEF Step

\* The types hold, and pthread_join() is given the identity of a thread: tid is
\* tested before it is passed on, and no start() ever takes it back to 0.
THEOREM ThreadTypes == Spec => []TypeOK
<1>1. Init => TypeOK
  BY DEF Init, TypeOK, InJoin
<1>2. ASSUME TypeOK, [Next]_vars PROVE TypeOK'
  <2>1. CASE \E u \in User : Start(u) \/ Call(u) \/ Step(u)
    BY <1>2, <2>1, UserType
  <2>2. CASE \E t \in Tid : RunReturns(t)
    BY <1>2, <2>2 DEF RunReturns, TypeOK, objectVars, waitVars
  <2>3. CASE UNCHANGED vars
    BY <1>2, <2>3 DEF vars, TypeOK
  <2> QED BY <1>2, <2>1, <2>2, <2>3 DEF Next
<1> QED BY <1>1, <1>2, PTL DEF Spec

\* join() returns with its thread running only while another user waits for
\* that thread: neither a failing start(), nor a thread joined by another, nor
\* the reuse of an identity makes it return early.
THEOREM JoinNeverEarly == Spec => JoinWaits
<1>1. ASSUME TypeOK, [Next]_vars, NEW u \in User, LeavesEarly(u)
      PROVE  \E v \in User \ {u} : Waiting(v, Joins(u))
  <2> USE <1>1 DEF TypeOK, LeavesEarly, Joins, InJoin, objectVars, waitVars
  <2>1. Step(u)
    <3>1. CASE UNCHANGED vars
      BY <3>1 DEF vars
    <3>2. ASSUME NEW v \in User, Start(v) \/ Call(v) \/ Step(v), v # u
          PROVE  FALSE
      <4>1. pc'[u] = pc[u]
        BY <3>2 DEF Start, Call, Step, Join, TimedJoin, Poll, PthreadJoin,
                    Joined, Goto
      <4> QED BY <4>1
    <3>3. CASE \E t \in Tid : RunReturns(t)
      BY <3>3 DEF RunReturns
    <3>4. CASE Start(u) \/ Call(u)
      BY <3>4 DEF Start, Call
    <3> QED BY <3>1, <3>2, <3>3, <3>4 DEF Next
  <2>2. CASE Join(u)
    BY <2>2 DEF Join, Goto
  <2>3. CASE TimedJoin(u) \/ Poll(u)
    BY <2>3 DEF TimedJoin, Poll
  <2>4. CASE PthreadJoin(u)
    <3>1. target[u] \notin Free
      BY <2>4 DEF PthreadJoin, Free
    <3> QED BY <2>4, <3>1 DEF PthreadJoin, Goto, Waiting
  <2>5. CASE Joined(u)
    BY <2>5 DEF Joined
  <2> QED BY <2>1, <2>2, <2>3, <2>4, <2>5 DEF Step
<1>2. TypeOK /\ [Next]_vars =>
         [\A u \in User : LeavesEarly(u) =>
             \E v \in User \ {u} : Waiting(v, Joins(u))]_vars
  BY <1>1
<1> QED BY <1>2, ThreadTypes, PTL DEF Spec, JoinWaits

\* Nothing that runs assigns threadStatus, and the turns of a join() with a time
\* go one over its argument and no further.
PauseInv ==
    /\ TypeOK
    /\ threadStatus = "NEW"
    /\ \A u \in User : pc[u] = "poll" => k[u] <= millisTime[u] + 1

LEMMA TimeIsNat == TypeOK => \A u \in User : millisTime[u] \in Nat
<1>1. MilliSecs \cup {0} \subseteq Nat
  BY ThreadAssumption DEF ThreadAssumption
<1> QED BY <1>1 DEF TypeOK

LEMMA UserPauses ==
    ASSUME PauseInv, TypeOK', NEW u \in User, Start(u) \/ Call(u) \/ Step(u)
    PROVE  /\ PauseInv'
           /\ \A v \in User : pc[v] = "poll" /\ pc'[v] # "poll" =>
                 k[v] = millisTime[v] + 1
<1> USE DEF PauseInv, TypeOK, Goto, objectVars, waitVars
<1>1. CASE Start(u)
  BY <1>1 DEF Start
<1>2. CASE Call(u)
  BY <1>2 DEF Call
<1>3. CASE Join(u)
  BY <1>3 DEF Join
<1>4. CASE TimedJoin(u)
  <2>1. /\ pc[u] = "timed" /\ pc'[u] # "timed" /\ k'[u] = 0
        /\ UNCHANGED <<threadStatus, millisTime>>
        /\ \A v \in User \ {u} : pc'[v] = pc[v] /\ k'[v] = k[v]
    BY <1>4 DEF TimedJoin
  <2>2. millisTime[u] \in Nat
    BY TimeIsNat
  <2> QED BY <2>1, <2>2
<1>5. CASE Poll(u)
  <2>1. millisTime[u] \in Nat
    BY TimeIsNat
  <2>2. /\ pc[u] = "poll" /\ k[u] \in Nat
        /\ k[u] <= millisTime[u] + 1
        /\ UNCHANGED <<threadStatus, millisTime>>
        /\ \A v \in User \ {u} : pc'[v] = pc[v] /\ k'[v] = k[v]
    BY <1>5 DEF Poll
  <2>3. CASE k[u] <= millisTime[u]
    <3>1. pc' = pc /\ k'[u] = k[u] + 1
      BY <1>5, <2>3 DEF Poll
    <3> QED BY <2>1, <2>2, <2>3, <3>1
  <2>4. CASE ~(k[u] <= millisTime[u])
    <3>1. pc'[u] = "idle" /\ k' = k
      BY <1>5, <2>4 DEF Poll
    <3> QED BY <2>1, <2>2, <2>4, <3>1
  <2> QED BY <2>3, <2>4
<1>6. CASE PthreadJoin(u)
  BY <1>6 DEF PthreadJoin
<1>7. CASE Joined(u)
  BY <1>7 DEF Joined
<1> QED BY <1>1, <1>2, <1>3, <1>4, <1>5, <1>6, <1>7 DEF Step

\* A join() with a time neither returns when its thread has ended nor goes on
\* beyond its turns, for any number of users, threads and starts.
THEOREM TimedJoinPauses == Spec => TimedJoinIsAPause
<1> DEFINE Leaves == \A u \in User : pc[u] = "poll" /\ pc'[u] # "poll" =>
                        k[u] = millisTime[u] + 1
<1>1. Init => PauseInv
  BY DEF Init, PauseInv, TypeOK, InJoin
<1>2. ASSUME PauseInv, TypeOK', [Next]_vars PROVE PauseInv' /\ Leaves
  <2>1. CASE \E u \in User : Start(u) \/ Call(u) \/ Step(u)
    BY <1>2, <2>1, UserPauses
  <2>2. CASE \E t \in Tid : RunReturns(t)
    BY <1>2, <2>2 DEF RunReturns, PauseInv, TypeOK, objectVars, waitVars
  <2>3. CASE UNCHANGED vars
    BY <1>2, <2>3 DEF vars, PauseInv, TypeOK
  <2> QED BY <1>2, <2>1, <2>2, <2>3 DEF Next
<1>3. PauseInv /\ TypeOK' /\ [Next]_vars => PauseInv' /\ [Leaves]_vars
  BY <1>2
<1> QED BY <1>1, <1>3, ThreadTypes, PTL DEF Spec, TimedJoinIsAPause

=============================================================================
