------------------------------- MODULE Server -------------------------------
(***************************************************************************)
(* server::listen(): the main thread, which spawns the worker threads, runs *)
(* the accept loop on its own io_context and handles SIGINT/SIGTERM, and    *)
(* the workers, each an io_context run by one thread.  The two sides share  *)
(* one relaxed atomic counter per worker (conn_counts), which the accept    *)
(* loop reads to pick the least loaded worker and the conn_guard of each    *)
(* connection decrements.                                                   *)
(*                                                                          *)
(* What a connection does between two suspensions is module Connection.     *)
(* Here it is Start, Resume, Suspend and Finish on the thread of its worker. *)
(*                                                                          *)
(* A relaxed load is taken to return the newest value of its counter, as    *)
(* the coherent caches of the hosts this builds for make it do.             *)
(***************************************************************************)
EXTENDS Integers, FiniteSets, Sequences

CONSTANTS
    NumWorkers,   \* server_options::threads once listen() has made it >= 1
    SureThreads,  \* how many threads the host is sure to grant: past it,
                  \* std::thread's constructor may throw
    Conns,        \* the connections clients may open, each at most once
    NoConn        \* the worker thread is in no connection

ASSUME WorkersAssumption == NumWorkers \in Nat \ {0}
ASSUME SureThreadsAssumption == SureThreads \in Nat
ASSUME ConnsAssumption == IsFiniteSet(Conns) /\ NoConn \notin Conns

Workers == 0 .. NumWorkers - 1

VARIABLES
    phase,      \* where listen() is
    threads,    \* how many threads the pool holds
    next,       \* the worker the current loop of listen() has reached
    guarded,    \* the work guards are alive
    loop,       \* where accept_loop is
    idx,        \* the loop variable of its scan
    best,       \* the worker it will give the next connection to
    bestCount,  \* the count it read for that worker
    count,      \* conn_counts
    backlog,    \* connections established by the kernel, not yet accepted
    status,     \* what has become of each connection
    home,       \* the worker a connection was given to, -1 before
    current,    \* the connection whose coroutine the worker's thread is in
    stopped,    \* io_context::stop() has been called on the worker
    exited,     \* the worker's thread has returned from io_context::run()
    freed       \* history: guards run on a worker since the scan last read it

mainVars == <<phase, threads, next, guarded>>
loopVars == <<loop, idx, best, bestCount>>
connVars == <<count, backlog, status, home, freed>>
workerVars == <<current, stopped, exited>>
vars == <<mainVars, loopVars, connVars, workerVars>>

\* The main thread, in the order of listen() and of its locals' destructors;
\* "aborted": std::terminate has ended the process.
Phases == {"spawning", "serving", "stopping", "joining", "destroying", "returned",
           "aborted"}

\* "start": posted, not yet run; "waiting": suspended in async_accept.
Loops == {"start", "top", "scan", "waiting", "failed"}

\* "refused": in the backlog when the acceptor closed; "dropped": accepted,
\* then lost with the accept loop; "spawned": the coroutine is queued on its
\* worker and has not run yet; "cut": its frame was destroyed while suspended;
\* "abandoned": its frame was destroyed before it ever ran.
Statuses == {"idle", "backlog", "refused", "dropped", "spawned", "active",
             "closed", "cut", "abandoned"}

Given(w) == {c \in Conns : home[c] = w}
Counted(w) == {c \in Given(w) : status[c] \in {"spawned", "active", "abandoned"}}
Pending(w) == {c \in Given(w) : status[c] \in {"spawned", "active"}}

\* The kernel resets what it still holds when the listening socket closes.
Refuse == [c \in Conns |-> IF status[c] = "backlog" THEN "refused" ELSE status[c]]

Init ==
    /\ phase = "spawning" /\ threads = 0 /\ next = 0 /\ guarded = TRUE
    /\ loop = "start" /\ idx = 0 /\ best = 0 /\ bestCount = 0
    /\ count = [w \in Workers |-> 0]
    /\ backlog = <<>>
    /\ status = [c \in Conns |-> "idle"]
    /\ home = [c \in Conns |-> -1]
    /\ current = [w \in Workers |-> NoConn]
    /\ stopped = [w \in Workers |-> FALSE]
    /\ exited = [w \in Workers |-> FALSE]
    /\ freed = [w \in Workers |-> 0]

-----------------------------------------------------------------------------
(* Clients.  The listening socket is open until listen() closes it.          *)

Connect(c) ==
    /\ phase \in {"spawning", "serving"}
    /\ status[c] = "idle"
    /\ status' = [status EXCEPT ![c] = "backlog"]
    /\ backlog' = Append(backlog, c)
    /\ UNCHANGED <<mainVars, loopVars, workerVars, count, home, freed>>

-----------------------------------------------------------------------------
(* The main thread fills the pool; std::thread's constructor may throw, and   *)
(* unwinding then starts with the pool's destructor, which joins.             *)

\* One thread for each worker's io_context.
OneShort == NumWorkers - 1
PoolSize == NumWorkers

SpawnThread ==
    /\ phase = "spawning" /\ threads < PoolSize
    /\ threads' = threads + 1
    /\ UNCHANGED <<phase, next, guarded, loopVars, connVars, workerVars>>

SpawnFails ==
    /\ phase = "spawning" /\ threads < PoolSize /\ threads >= SureThreads
    /\ phase' = "joining"
    /\ UNCHANGED <<threads, next, guarded, loopVars, connVars, workerVars>>

Serve ==
    /\ phase = "spawning" /\ threads = PoolSize
    /\ phase' = "serving"
    /\ UNCHANGED <<threads, next, guarded, loopVars, connVars, workerVars>>

-----------------------------------------------------------------------------
(* accept_loop, on the main thread.  The scan runs in one go, but the workers *)
(* decrement their counters between any two of its loads.                     *)

More(a, b) == a > b
Fewer(a, b) == a < b

BeginScan ==
    /\ phase = "serving" /\ loop \in {"start", "top"}
    /\ loop' = "scan" /\ idx' = 1 /\ best' = 0 /\ bestCount' = count[0]
    /\ freed' = [freed EXCEPT ![0] = 0]
    /\ UNCHANGED <<mainVars, workerVars, count, backlog, status, home>>

ScanStep ==
    /\ loop = "scan" /\ idx < NumWorkers
    /\ IF Fewer(count[idx], bestCount)
          THEN best' = idx /\ bestCount' = count[idx]
          ELSE UNCHANGED <<best, bestCount>>
    /\ idx' = idx + 1
    /\ freed' = [freed EXCEPT ![idx] = 0]
    /\ UNCHANGED <<mainVars, workerVars, loop, count, backlog, status, home>>

AwaitAccept ==
    /\ loop = "scan" /\ idx = NumWorkers
    /\ loop' = "waiting"
    /\ UNCHANGED <<mainVars, connVars, workerVars, idx, best, bestCount>>

\* conn_counts after the accept loop has charged w with one more connection.
NotCharged(w) == count
Charged(w) == [count EXCEPT ![w] = @ + 1]

\* The socket is accepted into the worker chosen BEFORE the wait.
Accept ==
    /\ phase = "serving" /\ loop = "waiting" /\ backlog # <<>>
    /\ status' = [status EXCEPT ![Head(backlog)] = "spawned"]
    /\ home' = [home EXCEPT ![Head(backlog)] = best]
    /\ count' = Charged(best)
    /\ backlog' = Tail(backlog)
    /\ loop' = "top"
    /\ UNCHANGED <<mainVars, workerVars, idx, best, bestCount, freed>>

\* async_accept reports an error (no descriptors left, say): the catch is
\* outside the for(;;), so the loop is over and the listening socket stays open.
AcceptError ==
    /\ phase = "serving" /\ loop = "waiting"
    /\ loop' = "failed"
    /\ UNCHANGED <<mainVars, connVars, workerVars, idx, best, bestCount>>

\* set_option( no_delay ) throws on the accepted socket, which is then closed.
OptionError ==
    /\ phase = "serving" /\ loop = "waiting" /\ backlog # <<>>
    /\ status' = [status EXCEPT ![Head(backlog)] = "dropped"]
    /\ backlog' = Tail(backlog)
    /\ loop' = "failed"
    /\ UNCHANGED <<mainVars, workerVars, idx, best, bestCount, count, home, freed>>

-----------------------------------------------------------------------------
(* Worker threads: io_context::run() resumes one coroutine at a time.         *)

Running(w) == w < threads /\ ~exited[w]
Free(w) == Running(w) /\ ~stopped[w] /\ current[w] = NoConn

Start(c) ==
    /\ status[c] = "spawned" /\ Free(home[c])
    /\ status' = [status EXCEPT ![c] = "active"]
    /\ current' = [current EXCEPT ![home[c]] = c]
    /\ UNCHANGED <<mainVars, loopVars, stopped, exited, count, backlog, home, freed>>

Resume(c) ==
    /\ status[c] = "active" /\ Free(home[c])
    /\ current' = [current EXCEPT ![home[c]] = c]
    /\ UNCHANGED <<mainVars, loopVars, connVars, stopped, exited>>

Suspend(w) ==
    /\ current[w] # NoConn
    /\ current' = [current EXCEPT ![w] = NoConn]
    /\ UNCHANGED <<mainVars, loopVars, connVars, stopped, exited>>

\* handle_connection returns: ~conn_guard gives the slot back.
Finish(w) ==
    /\ current[w] # NoConn
    /\ status' = [status EXCEPT ![current[w]] = "closed"]
    /\ current' = [current EXCEPT ![w] = NoConn]
    /\ count' = [count EXCEPT ![w] = @ - 1]
    /\ freed' = [freed EXCEPT ![w] = @ + 1]
    /\ UNCHANGED <<mainVars, loopVars, stopped, exited, backlog, home>>

\* A handler throws what is no std::exception: handle_connection and then the
\* completion handler of spawn_safe let it pass, out of run() and of the thread.
\* The process ends, the main thread and the connections of all workers with it;
\* what its memory held no longer matters.
Abort(w) ==
    /\ current[w] # NoConn
    /\ phase' = "aborted" /\ loop' = "failed"
    /\ status' = Refuse
    /\ backlog' = <<>>
    /\ current' = [v \in Workers |-> NoConn]
    /\ exited' = [v \in Workers |-> TRUE]
    /\ UNCHANGED <<threads, next, guarded, idx, best, bestCount, count, home, freed, stopped>>

\* run() returns between two handlers, once stopped or out of work.
WorkerExit(w) ==
    /\ Running(w) /\ current[w] = NoConn
    /\ stopped[w] \/ (~guarded /\ Pending(w) = {})
    /\ exited' = [exited EXCEPT ![w] = TRUE]
    /\ UNCHANGED <<mainVars, loopVars, connVars, current, stopped>>

-----------------------------------------------------------------------------
(* Shutdown.  The signal handler runs on the main io_context, so only while   *)
(* the accept loop is suspended, and then to its end: the acceptor is closed  *)
(* and the guards cleared, then each worker is stopped in turn.               *)

Signal ==
    /\ phase = "serving" /\ loop \in {"start", "waiting", "failed"}
    /\ phase' = "stopping" /\ next' = 0 /\ guarded' = FALSE
    /\ status' = Refuse
    /\ backlog' = <<>>
    /\ UNCHANGED <<threads, loopVars, workerVars, count, home, freed>>

\* The workers the loop over w->stop() visits.
AllButLast == 0 .. NumWorkers - 2
ToStop == Workers

StopWorker ==
    /\ phase = "stopping" /\ next \in ToStop
    /\ stopped' = [stopped EXCEPT ![next] = TRUE]
    /\ next' = next + 1
    /\ UNCHANGED <<phase, threads, guarded, loopVars, connVars, current, exited>>

\* main_ctx.stop(): main_ctx.run() returns and listen()'s locals are destroyed,
\* the pool first.
MainStop ==
    /\ phase = "stopping" /\ next \notin ToStop
    /\ phase' = "joining" /\ next' = 0
    /\ UNCHANGED <<threads, guarded, loopVars, connVars, workerVars>>

\* joining_thread's destructor waits for its thread, if it is joinable.
Detached(w) == TRUE
Joinable(w) == exited[w]

Join ==
    /\ phase = "joining" /\ next < threads
    /\ Joinable(next)
    /\ next' = next + 1
    /\ UNCHANGED <<phase, threads, guarded, loopVars, connVars, workerVars>>

Joined ==
    /\ phase = "joining" /\ next = threads
    /\ phase' = "destroying" /\ next' = 0
    /\ UNCHANGED <<threads, guarded, loopVars, connVars, workerVars>>

\* An io_context's destructor destroys the frames of its coroutines: those that
\* ran hold a conn_guard, those that never started do not have one yet.
Destroy ==
    /\ phase = "destroying" /\ next < NumWorkers
    /\ status' = [c \in Conns |->
                     IF c \notin Given(next) THEN status[c]
                     ELSE CASE status[c] = "active" -> "cut"
                            [] status[c] = "spawned" -> "abandoned"
                            [] OTHER -> status[c]]
    /\ count' = [count EXCEPT ![next] =
                     @ - Cardinality({c \in Given(next) : status[c] = "active"})]
    /\ next' = next + 1
    /\ UNCHANGED <<phase, threads, guarded, loopVars, workerVars, backlog, home, freed>>

\* main_ctx goes last, and with it an acceptor that was never closed.
Return ==
    /\ phase = "destroying" /\ next = NumWorkers
    /\ phase' = "returned"
    /\ status' = Refuse
    /\ backlog' = <<>>
    /\ UNCHANGED <<threads, next, guarded, loopVars, workerVars, count, home, freed>>

\* listen() has returned, or the process is gone: nothing is left to do.
Terminated == phase \in {"returned", "aborted"} /\ UNCHANGED vars

-----------------------------------------------------------------------------
MainThread ==
    \/ SpawnThread \/ SpawnFails \/ Serve
    \/ BeginScan \/ ScanStep \/ AwaitAccept \/ Accept
    \/ StopWorker \/ MainStop \/ Join \/ Joined \/ Destroy \/ Return

Worker(w) == Suspend(w) \/ Finish(w) \/ WorkerExit(w)

Next ==
    \/ MainThread
    \/ \E w \in Workers : Worker(w) \/ Abort(w)
    \/ \E c \in Conns : Start(c) \/ Resume(c) \/ Connect(c)
    \/ AcceptError \/ OptionError \/ Signal
    \/ Terminated

\* Threads are scheduled, a handler suspends or ends, and an io_context runs
\* its queued handlers in order, so a coroutine posted to it gets its turn.
\* Clients, signals and failures owe nothing.
Fairness ==
    /\ WF_vars(MainThread)
    /\ \A w \in Workers : WF_vars(Worker(w))
    /\ \A c \in Conns : SF_vars(Start(c))

Spec == Init /\ [][Next]_vars
FairSpec == Spec /\ Fairness

-----------------------------------------------------------------------------
(* Properties                                                                *)

\* Every variable keeps its type, and a connection has a worker exactly when it
\* has been given to one.
TypeOK ==
    /\ phase \in Phases /\ threads \in 0 .. NumWorkers
    /\ next \in 0 .. NumWorkers /\ guarded \in BOOLEAN
    /\ loop \in Loops /\ idx \in 0 .. NumWorkers
    /\ best \in Workers /\ bestCount \in Nat
    /\ count \in [Workers -> Nat] /\ freed \in [Workers -> Nat]
    /\ backlog \in Seq(Conns)
    /\ status \in [Conns -> Statuses]
    /\ home \in [Conns -> Workers \cup {-1}]
    /\ current \in [Workers -> Conns \cup {NoConn}]
    /\ stopped \in [Workers -> BOOLEAN] /\ exited \in [Workers -> BOOLEAN]
    /\ \A c \in Conns :
          home[c] = -1 <=> status[c] \in {"idle", "backlog", "refused", "dropped"}

\* The counter that balancing trusts is exact at every moment, with the accept
\* loop, the workers' guards and the teardown all writing it: no slot leaks and
\* none is given back twice.  The one thing it keeps counting is a coroutine
\* destroyed before it ever ran.
CountExact == \A w \in Workers : count[w] = Cardinality(Counted(w))

\* The accept loop chooses a worker before it waits for the connection, so its
\* choice is stale when used, but never by more than the connections that other
\* workers have closed since their counters were read.
BoundedStaleness ==
    phase = "serving" /\ loop = "waiting" =>
        \A w \in Workers : count[best] <= count[w] + freed[w]

\* However late the choice is used, no worker ever holds more than one
\* connection above the number any other worker has been given so far: when
\* nothing closes, the workers stay even to within one.
Balanced ==
    \A v, w \in Workers :
        Cardinality(Counted(v)) <= Cardinality(Given(w)) + 1

\* A worker's io_context is destroyed only when its thread is out of run() and
\* in no coroutine: no thread uses a destroyed context, signal or not.
NoUseAfterDestroy ==
    \A w \in Workers :
        phase = "returned" \/ (phase = "destroying" /\ w < next) =>
            ~Running(w) /\ current[w] = NoConn

\* A connection the kernel holds is taken by the accept loop and its coroutine
\* starts, unless the loop has failed or the server is shutting down.
Served ==
    \A c \in Conns :
        status[c] = "backlog" ~>
            \/ status[c] \notin {"backlog", "spawned"}
            \/ loop = "failed"
            \/ phase # "serving"

\* A signal brings listen() to its end, whatever the connections are doing, and
\* so does a startup that fails before its first thread.  One that fails later
\* never ends: the guards of the threads there are outlive the pool that joins.
HungStartup == phase = "joining" /\ guarded /\ threads > 0
ListenEnds ==
    /\ phase \in {"stopping", "joining"} ~> phase \in {"returned", "aborted"} \/ HungStartup
    /\ [](guarded /\ threads > 0 => phase # "returned")

-----------------------------------------------------------------------------
(* What the documentation says and the code does not do                      *)

\* "stops all workers, drains active connections": no connection that a worker
\* had taken is destroyed by the shutdown.
Drained == \A c \in Conns : status[c] \notin {"cut", "abandoned"}
=============================================================================
