------------------------------ MODULE BaseMain ------------------------------
(***************************************************************************)
(* src/base/main.cpp: the main thread of the process that runs the two     *)
(* epoll threads.  mpc names the call that comes next in the child of      *)
(* TestFork(); the parent prints and ends, and shares nothing with it.     *)
(***************************************************************************)

VARIABLES
    mpc,       \* where the main thread is
    started    \* the threads that pthread_create() has made

mainVars == <<mpc, started>>

MainTypeOK ==
    /\ mpc \in {"fork", "execlp", "pipe", "epSvr", "pr", "scanf", "gone"}
    /\ started \subseteq {"epSvr", "pr"}

MainInit == mpc = "fork" /\ started = {}

\* fork() may fail; main() then returns.
Fork ==
    /\ mpc = "fork"
    /\ mpc' \in {"execlp", "gone"}
    /\ UNCHANGED started

\* Where there is a program "mytest" it takes the place of this one;
\* otherwise execlp() fails and the child goes on.
Exec ==
    /\ mpc = "execlp"
    /\ mpc' \in {"pipe", "gone"}
    /\ UNCHANGED started

\* When pipe() fails TestEpoll() returns and the process waits for input all
\* the same.  On a new descriptor SetNoBlocking() does not fail.
MakePipe ==
    /\ mpc = "pipe"
    /\ mpc' \in {"epSvr", "scanf"}
    /\ UNCHANGED started

\* start() does not say whether pthread_create() has made the thread.
StartThread(thread, next) ==
    /\ mpc = thread
    /\ started' \in {started, started \cup {thread}}
    /\ mpc' = next

\* A line of input or its end: main() returns, and exit() ends both threads
\* wherever they are and closes every descriptor.
ScanfReturns ==
    /\ mpc = "scanf"
    /\ mpc' = "gone"
    /\ UNCHANGED started

StartUp ==
    \/ Fork \/ Exec \/ MakePipe
    \/ StartThread("epSvr", "pr") \/ StartThread("pr", "scanf")

=============================================================================
