----------------------------- MODULE MysqlProofs -----------------------------
(***************************************************************************)
(* Proofs, for any queries, addresses and number of calls, that the        *)
(* connection keeps hold of its one result until it is destroyed, and runs *)
(* a query at most twice.                                                  *)
(***************************************************************************)
EXTENDS MysqlConnection, TLAPS

USE MysqlAssumption DEF MysqlAssumption

\* How many runs of the query the tries so far account for.
Tries == IF at \in {"store", "ping"} THEN retry + 1 ELSE retry

\* A query that must not be run again.
Once == ~reconnect /\ query \notin Select

\* The inductive invariant.  In the gap of OneResult there is no result at
\* all.  A query without rows that was run and then failed has taken the
\* session with it, which without a new one leaves nothing to run it again.
MysqlInv ==
    /\ TypeOK
    /\ OneResult
    /\ at \in {"query", "store"} => Live = {}
    /\ at \in {"free", "query", "store", "ping"} =>
          query \in Query /\ retry <= 1 /\ runs <= Tries
    /\ RunsAtMostTwice
    /\ Once /\ runs > 0 /\ at \in {"free", "query", "ping"} => session = "down"
    /\ at = "store" =>
          /\ answer # "error" => runs > 0
          /\ answer = "rows" => query \in Select
          /\ Once /\ runs > 0 /\ answer = "error" => session = "down"
    /\ at = "ping" => status_ = 1
    /\ SuccessIsOfThisQuery

LEMMA ExecuteKeeps ==
    ASSUME MysqlInv, NEW q \in Query, Execute(q) PROVE MysqlInv'
  BY DEF MysqlInv, Execute, TypeOK, OneResult, RunsAtMostTwice, Tries, Live,
         SuccessIsOfThisQuery

LEMMA FreeResultKeeps == ASSUME MysqlInv, FreeResult PROVE MysqlInv'
<1> USE DEF FreeResult
<1>1. Live = {res_} \ {NULL} /\ at = "free"
  BY DEF MysqlInv, OneResult
<1>2. rows' \in [Result -> Query \cup {NULL}] /\ Live' = {} /\ at' = "query"
  BY <1>1 DEF MysqlInv, TypeOK, Live
<1> QED
  BY <1>1, <1>2
  DEF MysqlInv, TypeOK, OneResult, RunsAtMostTwice, Tries, Once, SuccessIsOfThisQuery

LEMMA SendQueryKeeps == ASSUME MysqlInv, SendQuery PROVE MysqlInv'
<1> USE DEF SendQuery, QueryServer
<1>1. TypeOK' /\ Live' = {}
  BY DEF MysqlInv, TypeOK, Live
<1>2. /\ runs \in Nat /\ runs' \in {runs, runs + 1}
      /\ retry' = retry /\ retry \in 0..2 /\ retry <= 1 /\ runs <= retry
      /\ at' = "store" /\ query' \in Query /\ reconnect' = reconnect
  BY DEF MysqlInv, TypeOK, Tries
<1>3. runs' <= Tries'
  BY <1>2 DEF Tries
<1>4. Once /\ runs > 0 => session = "down"
  BY DEF MysqlInv
<1>5. RunsAtMostTwice'
  BY <1>2, <1>4 DEF MysqlInv, RunsAtMostTwice, Once
<1>6. /\ answer' # "error" => runs' > 0
      /\ answer' = "rows" => query' \in Select
      /\ Once' /\ runs' > 0 /\ answer' = "error" => session' = "down"
  BY <1>2, <1>4 DEF Once
<1>7. OneResult' /\ SuccessIsOfThisQuery'
  BY <1>2 DEF OneResult, SuccessIsOfThisQuery
<1> QED
  BY <1>1, <1>2, <1>3, <1>5, <1>6, <1>7 DEF MysqlInv

LEMMA StoreResultKeeps == ASSUME MysqlInv, StoreResult PROVE MysqlInv'
<1> USE DEF StoreResult, Judge
<1>1. CASE res_' = NULL /\ UNCHANGED rows
  <2>1. TypeOK' /\ Live' = {}
    BY <1>1 DEF MysqlInv, TypeOK, Live
  <2>2. /\ status_' = 0 => answer = "empty" /\ runs > 0
        /\ at' = IF status_' = 0 THEN "idle" ELSE "ping"
        /\ status_' \in {0, 1} /\ at = "store"
        /\ UNCHANGED <<query, retry, runs, reconnect>>
    BY <1>1 DEF MysqlInv
  <2>3. runs' <= Tries' \/ at' = "idle"
    BY <2>2 DEF MysqlInv, Tries
  <2>4. Once' /\ runs > 0 /\ at' = "ping" => session' = "down"
    BY <1>1, <2>2 DEF MysqlInv, TypeOK, Once
  <2>5. OneResult' /\ SuccessIsOfThisQuery' /\ RunsAtMostTwice'
    BY <1>1, <2>1, <2>2
    DEF MysqlInv, OneResult, SuccessIsOfThisQuery, RunsAtMostTwice
  <2>6. query \in Query /\ retry <= 1
    BY <2>2 DEF MysqlInv
  <2> QED
    BY <1>1, <2>1, <2>2, <2>3, <2>4, <2>5, <2>6 DEF MysqlInv
<1>2. ASSUME NEW r \in Result \ Live, answer = "rows", res_' = r, status_' = 0,
             rows' = [rows EXCEPT ![r] = query]
      PROVE  MysqlInv'
  <2>1. TypeOK'
    BY <1>2 DEF MysqlInv, TypeOK
  <2>2. at' = "idle" /\ runs' = runs /\ runs > 0 /\ query \in Query
    BY <1>2 DEF MysqlInv
  <2>3. Live' = {r} /\ rows'[r] = query
    BY <1>2, <2>2 DEF MysqlInv, Live, TypeOK
  <2>4. OneResult' /\ SuccessIsOfThisQuery' /\ RunsAtMostTwice'
    BY <1>2, <2>2, <2>3
    DEF MysqlInv, OneResult, SuccessIsOfThisQuery, RunsAtMostTwice
  <2> QED
    BY <2>1, <2>2, <2>4 DEF MysqlInv
<1> QED BY <1>1, <1>2

LEMMA PingKeeps == ASSUME MysqlInv, Ping PROVE MysqlInv'
<1> USE DEF Ping, PingServer
<1>1. /\ at = "ping" /\ retry \in 0..2 /\ retry <= 1 /\ runs <= retry + 1
      /\ query \in Query /\ status_ = 1 /\ runs \in Nat
  BY DEF MysqlInv, Tries, TypeOK
<1>2. TypeOK' /\ Live' = Live /\ Live = {res_} \ {NULL}
  BY <1>1 DEF MysqlInv, TypeOK, Live, OneResult
<1>3. /\ at' \in {"free", "idle"} /\ retry' = retry + 1
      /\ at' = "free" => retry' <= 1
      /\ UNCHANGED <<query, runs, status_, reconnect, res_, rows>>
  BY <1>1
<1>4. runs' <= Tries'
  BY <1>1, <1>3 DEF Tries
<1>5. Once' /\ runs > 0 => session' = "down"
  BY <1>1, <1>3 DEF MysqlInv, Once
<1>6. OneResult' /\ SuccessIsOfThisQuery' /\ RunsAtMostTwice'
  BY <1>1, <1>2, <1>3
  DEF MysqlInv, OneResult, SuccessIsOfThisQuery, RunsAtMostTwice
<1> QED
  BY <1>1, <1>2, <1>3, <1>4, <1>5, <1>6 DEF MysqlInv

LEMMA MethodKeeps == ASSUME MysqlInv, Rows \/ GetValue PROVE MysqlInv'
<1> USE DEF UsesNull, Rows, GetValue, libVars
<1>1. at = "idle" /\ TypeOK /\ Live = {res_} \ {NULL}
  BY DEF MysqlInv, OneResult
<1>2. /\ at' \in {"idle", "crashed"}
      /\ UNCHANGED <<query, retry, res_, status_, rows, answer, session,
                     reconnect, runs, calls>>
      /\ unfetched' \in {unfetched, FALSE}
  OBVIOUS
<1>3. TypeOK' /\ Live' = Live
  BY <1>1, <1>2 DEF TypeOK, Live
<1>4. OneResult' /\ RunsAtMostTwice' /\ SuccessIsOfThisQuery'
  BY <1>1, <1>2, <1>3 DEF MysqlInv, OneResult, RunsAtMostTwice, SuccessIsOfThisQuery
<1> QED
  BY <1>1, <1>2, <1>3, <1>4 DEF MysqlInv, Once

LEMMA DestructorKeeps == ASSUME MysqlInv, Destructor PROVE MysqlInv'
<1> USE DEF Destructor
<1>1. TypeOK' /\ Live' = Live /\ Live = {res_} \ {NULL} /\ at' = "closed"
  BY DEF MysqlInv, TypeOK, Live, OneResult
<1>2. OneResult' /\ RunsAtMostTwice' /\ SuccessIsOfThisQuery'
  BY <1>1 DEF MysqlInv, OneResult, RunsAtMostTwice, SuccessIsOfThisQuery
<1> QED
  BY <1>1, <1>2 DEF MysqlInv, Once

LEMMA SessionLostKeeps == ASSUME MysqlInv, SessionLost PROVE MysqlInv'
<1> USE DEF SessionLost, objectVars
<1>1. TypeOK' /\ Live' = Live /\ Tries' = Tries
  BY DEF MysqlInv, TypeOK, Live, Tries
<1>2. OneResult' /\ RunsAtMostTwice' /\ SuccessIsOfThisQuery'
  BY <1>1 DEF MysqlInv, OneResult, RunsAtMostTwice, SuccessIsOfThisQuery
<1> QED
  BY <1>1, <1>2 DEF MysqlInv, Once

\* Every reachable state of the connection is one of MysqlInv.
THEOREM MysqlInvariant == Spec => []MysqlInv
<1>1. ASSUME Init PROVE MysqlInv
  <2>1. /\ rows \in [Result -> Query \cup {NULL}]
        /\ calls \in 0..MaxCalls /\ retry \in 0..2 /\ runs \in Nat
    BY <1>1 DEF Init
  <2>2. TypeOK
    BY <1>1, <2>1, Zenon DEF Init, TypeOK
  <2>3. Live = {}
    BY <1>1 DEF Init, Live
  <2> QED
    BY <1>1, <2>2, <2>3
    DEF Init, MysqlInv, OneResult, RunsAtMostTwice, SuccessIsOfThisQuery
<1>2. MysqlInv /\ [Next]_vars => MysqlInv'
  <2> SUFFICES ASSUME MysqlInv, [Next]_vars PROVE MysqlInv'
    OBVIOUS
  <2>1. CASE \E q \in Query : Execute(q)
    BY <2>1, ExecuteKeeps
  <2>2. CASE Try
    BY <2>2, FreeResultKeeps, SendQueryKeeps, StoreResultKeeps, PingKeeps DEF Try
  <2>3. CASE Rows \/ GetValue \/ Destructor
    BY <2>3, MethodKeeps, DestructorKeeps
  <2>4. CASE SessionLost
    BY <2>4, SessionLostKeeps
  <2>5. CASE UNCHANGED vars
    BY <2>5 DEF vars, objectVars, libVars, MysqlInv, TypeOK, OneResult, Live,
                RunsAtMostTwice, Tries, SuccessIsOfThisQuery, Once
  <2> QED BY <2>1, <2>2, <2>3, <2>4, <2>5 DEF Next
<1> QED BY <1>1, <1>2, PTL DEF Spec

\* The state of the connection is well formed at every length of use.
THEOREM MysqlTypes == Spec => []TypeOK
  BY MysqlInvariant, PTL DEF MysqlInv

\* No way through the two tries of Execute() leaks a result or frees it twice;
\* what the destructor leaks is one result at most.
THEOREM ResultIsHeld == Spec => []OneResult
  BY MysqlInvariant, PTL DEF MysqlInv

\* Success() after a query speaks of that query and its rows.
THEOREM SuccessIsCurrent == Spec => []SuccessIsOfThisQuery
  BY MysqlInvariant, PTL DEF MysqlInv

\* One call of Execute() has the server run the query at most twice, and a
\* query without rows at most once, if the library does not reconnect by itself.
THEOREM RetryRunsTwice == Spec => []RunsAtMostTwice
  BY MysqlInvariant, PTL DEF MysqlInv

\* The loop of Execute() ends after two rounds of its four calls: with the
\* return of each call this is why Execute() returns.
THEOREM ExecuteWindsDown == Spec => EightCallsAtMost
<1> DEFINE Down == /\ CallsLeft' \in 0..8
                   /\ at \in DOMAIN Stage /\ at' # at => CallsLeft' < CallsLeft
<1>1. /\ DOMAIN Stage = {"free", "query", "store", "ping"}
      /\ Stage["free"] = 4 /\ Stage["query"] = 3
      /\ Stage["store"] = 2 /\ Stage["ping"] = 1
  BY DEF Stage
<1>2. MysqlInv /\ MysqlInv' /\ [Next]_vars => [Down]_vars
  <2> SUFFICES ASSUME MysqlInv, MysqlInv', Next PROVE Down
    OBVIOUS
  <2>1. retry \in 0..2 /\ retry' \in 0..2
    BY DEF MysqlInv, TypeOK
  <2>2. CallsLeft' \in 0..8
    <3>1. at' \in DOMAIN Stage => retry' \in 0..1
      BY <1>1, <2>1 DEF MysqlInv
    <3> QED BY <1>1, <3>1 DEF CallsLeft
  <2>3. ASSUME at \in DOMAIN Stage, at' # at PROVE CallsLeft' < CallsLeft
    <3>1. Try
      BY <1>1, <2>3
      DEF Next, Execute, Rows, GetValue, UsesNull, Destructor, SessionLost,
          objectVars
    <3>2. retry \in 0..1
      BY <1>1, <2>3, <2>1 DEF MysqlInv
    <3>3. CASE FreeResult
      BY <1>1, <3>2, <3>3 DEF FreeResult, CallsLeft
    <3>4. CASE SendQuery
      BY <1>1, <3>2, <3>4 DEF SendQuery, CallsLeft
    <3>5. CASE StoreResult
      BY <1>1, <3>2, <3>5 DEF StoreResult, Judge, CallsLeft
    <3>6. CASE Ping
      BY <1>1, <3>2, <3>6 DEF Ping, CallsLeft
    <3> QED BY <3>1, <3>3, <3>4, <3>5, <3>6 DEF Try
  <2> QED BY <2>2, <2>3
<1> QED BY <1>2, MysqlInvariant, PTL DEF Spec, EightCallsAtMost

=============================================================================
