--------------------------- MODULE MysqlConnection ---------------------------
(***************************************************************************)
(* src/src/mysql_connection.h: a connection on which Execute() tries a     *)
(* query twice, and the result it keeps for Rows() and GetValue().  at is  *)
(* the library call of Execute() that comes next.  The library and the     *)
(* server are modelled from these calls; no call sets an option, so that   *)
(* reconnecting is as the version of the library has it.                   *)
(***************************************************************************)
EXTENDS Integers, FiniteSets

CONSTANTS
    Query,
    Select,     \* the queries that the server answers with rows
    Result,     \* the addresses that mysql_store_result() may return
    NULL,
    MaxCalls    \* bound: calls of Execute()

ASSUME MysqlAssumption ==
    /\ Select \subseteq Query
    /\ NULL \notin Query \cup Result
    /\ MaxCalls \in Nat /\ IsFiniteSet(Result)

VARIABLES
    at,         \* "idle" between the calls of the methods
    query,      \* the argument of Execute()
    retry,
    res_,       \* NULL or an address
    rows,       \* rows[r]: the query whose rows are at address r, if any
    unfetched,  \* the cursor of res_ has rows ahead
    status_,    \* 0, or 1 for any error; before the first query undefined
    answer,     \* what mysql_query() got: "error", "empty" or "rows"
    session,    \* the connection to the server is "up" or "down"
    reconnect,  \* the library reconnects by itself
    runs,       \* how often the server has run the query of this call
    calls

objectVars == <<at, query, retry, res_, unfetched, status_>>
libVars == <<rows, answer, session, reconnect, runs>>
vars == <<objectVars, libVars, calls>>

Live == {r \in Result : rows[r] # NULL}

\* The constructor prints that mysql_real_connect() failed and goes on.
Init ==
    /\ at = "idle" /\ query = NULL /\ retry = 0
    /\ res_ = NULL /\ rows = [r \in Result |-> NULL] /\ unfetched = FALSE
    /\ status_ \in {0, 1}
    /\ answer = "error"
    /\ session \in {"up", "down"} /\ reconnect \in BOOLEAN
    /\ runs = 0 /\ calls = 0

-----------------------------------------------------------------------------
(* Execute().                                                              *)

Execute(q) ==
    /\ at = "idle" /\ calls < MaxCalls
    /\ query' = q /\ retry' = 0 /\ runs' = 0
    /\ calls' = calls + 1
    /\ at' = "free"
    /\ UNCHANGED <<res_, unfetched, status_, rows, answer, session, reconnect>>

\* mysql_free_result() of an address that holds no result is a crash.
FreeResult ==
    /\ at = "free"
    /\ IF res_ = NULL THEN at' = "query" /\ UNCHANGED rows
       ELSE IF res_ \in Live
            THEN at' = "query" /\ rows' = [rows EXCEPT ![res_] = NULL]
            ELSE at' = "crashed" /\ UNCHANGED rows
    /\ UNCHANGED <<query, retry, res_, unfetched, status_, answer, session,
                   reconnect, runs, calls>>

\* A query needs a session, an existing or a new one.  The server refuses it,
\* or runs it; the session may be lost before that, or after it with the answer.
\* The description of the rows may also get lost, for want of memory, with the
\* session left as it is.
QueryServer ==
    \/ /\ session = "up" \/ reconnect
       /\ session' = "up"
       /\ \/ answer' = "error" /\ UNCHANGED runs
          \/ /\ answer' = IF query \in Select THEN "rows" ELSE "empty"
             /\ runs' = runs + 1
          \/ query \in Select /\ answer' = "error" /\ runs' = runs + 1
    \/ answer' = "error" /\ session' = "down" /\ UNCHANGED runs
    \/ /\ session = "up" \/ reconnect
       /\ answer' = "error" /\ session' = "down" /\ runs' = runs + 1

SendQuery ==
    /\ at = "query"
    /\ QueryServer
    /\ at' = "store"
    /\ UNCHANGED <<query, retry, res_, unfetched, status_, rows, reconnect, calls>>

\* Execute() returns true if there was no error, with what has been stored.
Judge == at' = IF status_' = 0 THEN "idle" ELSE "ping"

\* Mutant of StoreResult: an error leaves res_ as it was.
StoreResultKept ==
    /\ at = "store"
    /\ \/ /\ answer = "rows"
          /\ \E r \in Result \ Live :
                res_' = r /\ rows' = [rows EXCEPT ![r] = query]
          /\ unfetched' = TRUE /\ status_' = 0
          /\ UNCHANGED session
       \/ /\ answer # "rows"
          /\ status_' = (IF answer = "empty" THEN 0 ELSE 1)
          /\ UNCHANGED <<res_, unfetched, rows, session>>
    /\ Judge
    /\ UNCHANGED <<query, retry, answer, reconnect, runs, calls>>

\* mysql_store_result() fetches the rows, or fails to: with the session, or for
\* want of memory or because of an error among the rows, which the session
\* outlives.  Without rows, or after an error of mysql_query(), it returns NULL.
\* mysql_errno() is the last error.
StoreResult ==
    /\ at = "store"
    /\ \/ /\ answer = "rows"
          /\ \E r \in Result \ Live :
                res_' = r /\ rows' = [rows EXCEPT ![r] = query]
          /\ unfetched' = TRUE /\ status_' = 0
          /\ UNCHANGED session
       \/ /\ answer = "rows"
          /\ res_' = NULL /\ unfetched' = FALSE /\ status_' = 1
          /\ session' \in {session, "down"}
          /\ UNCHANGED rows
       \/ /\ answer # "rows"
          /\ res_' = NULL /\ unfetched' = FALSE
          /\ status_' = IF answer = "empty" THEN 0 ELSE 1
          /\ UNCHANGED <<rows, session>>
    /\ Judge
    /\ UNCHANGED <<query, retry, answer, reconnect, runs, calls>>

\* mysql_ping() finds the session, makes a new one, or fails.
PingServer ==
    \/ session' = "up" /\ (session = "up" \/ reconnect)
    \/ session' = "down"

\* Mutant of Ping: mysql_errno() is asked after mysql_ping().
PingThenErrno ==
    /\ at = "ping"
    /\ PingServer
    /\ status_' = IF session' = "up" THEN 0 ELSE 1
    /\ retry' = retry + 1
    /\ at' = IF retry + 1 <= 1 THEN "free" ELSE "idle"
    /\ UNCHANGED <<query, res_, unfetched, rows, answer, reconnect, runs, calls>>

\* Mutant of Ping: the session is made anew, with mysql_real_connect().
PingConnects ==
    /\ at = "ping"
    /\ session' \in {"up", "down"}
    /\ retry' = retry + 1
    /\ at' = IF retry + 1 <= 1 THEN "free" ELSE "idle"
    /\ UNCHANGED <<query, res_, unfetched, status_, rows, answer, reconnect, runs,
                   calls>>

\* Mutant of Ping: retry <= 2.
PingThreeTries ==
    /\ at = "ping"
    /\ PingServer
    /\ retry' = retry + 1
    /\ at' = IF retry + 1 <= 2 THEN "free" ELSE "idle"
    /\ UNCHANGED <<query, res_, unfetched, status_, rows, answer, reconnect, runs,
                   calls>>

\* Mutant of Ping: retry++ is missing.
PingUncounted ==
    /\ at = "ping"
    /\ PingServer
    /\ at' = "free"
    /\ UNCHANGED <<query, retry, res_, unfetched, status_, rows, answer, reconnect,
                   runs, calls>>

\* The end of a failed try: a second one, or the return of false.
Ping ==
    /\ at = "ping"
    /\ PingServer
    /\ retry' = retry + 1
    /\ at' = IF retry + 1 <= 1 THEN "free" ELSE "idle"
    /\ UNCHANGED <<query, res_, unfetched, status_, rows, answer, reconnect, runs,
                   calls>>

-----------------------------------------------------------------------------
(* The other methods.                                                      *)

\* Without a result mysql_num_rows() and mysql_fetch_row() read through NULL,
\* which is a crash, or return 0 in the versions that test it.
UsesNull ==
    /\ at = "idle" /\ res_ = NULL
    /\ at' = "crashed"
    /\ UNCHANGED <<query, retry, res_, unfetched, status_, libVars, calls>>

\* mysql_num_rows() of a result changes nothing.
Rows == UsesNull

\* GetValue() fetches whatever rows the cursor has ahead: the next call, for
\* another row or column, finds none and returns nullptr.
GetValue ==
    \/ UsesNull
    \/ /\ at = "idle" /\ unfetched
       /\ unfetched' = FALSE
       /\ UNCHANGED <<at, query, retry, res_, status_, libVars, calls>>

\* mysql_close() leaves the result where it is, and res_ is gone with the object.
Destructor ==
    /\ at = "idle"
    /\ at' = "closed" /\ session' = "down"
    /\ res_' = NULL /\ unfetched' = FALSE
    /\ UNCHANGED <<query, retry, status_, rows, answer, reconnect, runs, calls>>

\* The server or the network ends the session.
SessionLost ==
    /\ session = "up"
    /\ session' = "down"
    /\ UNCHANGED <<objectVars, rows, answer, reconnect, runs, calls>>

Try == FreeResult \/ SendQuery \/ StoreResult \/ Ping

Next ==
    \/ \E q \in Query : Execute(q)
    \/ Try
    \/ Rows \/ GetValue \/ Destructor \/ SessionLost

Spec == Init /\ [][Next]_vars

-----------------------------------------------------------------------------

TypeOK ==
    /\ at \in {"idle", "free", "query", "store", "ping", "closed", "crashed"}
    /\ query \in Query \cup {NULL}
    /\ retry \in 0..2
    /\ res_ \in Result \cup {NULL}
    /\ rows \in [Result -> Query \cup {NULL}]
    /\ unfetched \in BOOLEAN
    /\ status_ \in {0, 1}
    /\ answer \in {"error", "empty", "rows"}
    /\ session \in {"up", "down"}
    /\ reconnect \in BOOLEAN
    /\ runs \in Nat
    /\ calls \in 0..MaxCalls

\* Whatever fails in either try, Execute() leaks no result and frees none twice,
\* and no method uses one that was freed: outside the gap between free and
\* store, res_ is the one result there is, or NULL where there is none.
\* ~MysqlConnection(), which frees nothing, leaks that one and no more, however
\* many queries there were.
OneResult ==
    /\ at \notin {"query", "store", "closed"} => Live = {res_} \ {NULL}
    /\ at = "closed" => \A r, s \in Live : r = s

\* When Success() holds after a query, the server has run that query, and a
\* result that Rows() and GetValue() find is its, not one of an earlier query.
SuccessIsOfThisQuery ==
    at = "idle" /\ calls > 0 /\ status_ = 0 =>
        runs > 0 /\ (res_ # NULL => rows[res_] = query)

\* The retry repeats a query that may have been run already: at most two runs.
\* A query that changes data and is not answered with rows is run again only by
\* a library that reconnects, because its answer is lost only together with the
\* session.  One that is answered with rows may be run again on the same
\* session, when its rows could not be stored.
RunsAtMostTwice ==
    runs <= (IF reconnect \/ query \in Select THEN 2 ELSE 1)

\* The library calls that a running Execute() may still make, without
\* mysql_errno() and mysql_error(), which only read.
Stage == [free |-> 4, query |-> 3, store |-> 2, ping |-> 1]
CallsLeft == IF at \in DOMAIN Stage THEN Stage[at] + 4 * (1 - retry) ELSE 0

\* An Execute() makes at most eight such calls, two for each of the four in its
\* loop, however its two tries fail: each one brings it nearer to its end,
\* so that it returns if they do, whatever the server does.
EightCallsAtMost ==
    [][/\ CallsLeft' \in 0..8
       /\ at \in DOMAIN Stage /\ at' # at => CallsLeft' < CallsLeft]_vars

=============================================================================
