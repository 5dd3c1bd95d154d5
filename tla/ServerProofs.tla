---------------------------- MODULE ServerProofs ----------------------------
(* Theorems of Server, for every number of workers and of connections.       *)
EXTENDS Server, FiniteSetTheorems, TLAPS

-----------------------------------------------------------------------------
(* The inductive invariant.                                                  *)

\* What the kernel holds is what has been connected and not yet accepted, each
\* connection once.
BacklogInv ==
    /\ \A i \in 1 .. Len(backlog) : status[backlog[i]] = "backlog"
    /\ \A i, j \in 1 .. Len(backlog) : backlog[i] = backlog[j] => i = j

\* A thread is in at most one coroutine, an active one of its own worker, and
\* only while it is in io_context::run().
CurrentInv ==
    \A w \in Workers : current[w] # NoConn =>
        /\ status[current[w]] = "active" /\ home[current[w]] = w
        /\ Running(w)

\* What the accept loop knows of the counters it has read.
ScanInv ==
    /\ loop # "start" => phase # "spawning"
    /\ loop \in {"top", "scan"} => phase = "serving"
    /\ loop = "waiting" => idx = NumWorkers
    /\ loop = "scan" => idx >= 1
    /\ phase = "serving" /\ loop \in {"scan", "waiting"} =>
          /\ count[best] <= bestCount
          /\ \A w \in 0 .. idx - 1 : bestCount <= count[w] + freed[w]

\* How far the shutdown has come.
ShutdownInv ==
    /\ phase \in {"spawning", "serving"} => next = 0
    /\ phase = "joining" => next <= threads
    /\ phase = "joining" => \A w \in 0 .. next - 1 : exited[w]
    /\ phase \in {"destroying", "returned"} => \A w \in Workers : ~Running(w)

\* While the guards are alive no worker is stopped and no thread leaves run().
GuardInv ==
    /\ phase = "stopping" => ~guarded
    /\ guarded /\ phase # "aborted" => \A w \in Workers : ~stopped[w] /\ ~exited[w]

IInv ==
    /\ TypeOK /\ BacklogInv /\ CurrentInv /\ CountExact /\ ScanInv /\ ShutdownInv /\ GuardInv

USE WorkersAssumption, SureThreadsAssumption, ConnsAssumption

\* The sets of connections that the counters stand for are finite.
LEMMA CountedFinite ==
    ASSUME NEW w, NEW S, S \subseteq Counted(w)
    PROVE  IsFiniteSet(S) /\ Cardinality(S) \in Nat
<1>1. S \subseteq Conns  BY DEF Counted, Given
<1>2. QED  BY <1>1, FS_Subset, FS_CardinalityType

\* The initial states satisfy the invariant.
LEMMA InitInv == Init => IInv
<1> SUFFICES ASSUME Init PROVE IInv  OBVIOUS
<1> USE DEF Init
<1>1. TypeOK
    BY DEF TypeOK, Phases, Loops, Statuses, Workers
<1>2. CountExact
    <2> SUFFICES ASSUME NEW w \in Workers PROVE count[w] = Cardinality(Counted(w))
        BY DEF CountExact
    <2>1. Counted(w) = {}  BY DEF Counted, Given
    <2>2. QED  BY <2>1, FS_EmptySet
<1>3. BacklogInv /\ CurrentInv /\ ScanInv /\ ShutdownInv /\ GuardInv
    BY DEF BacklogInv, CurrentInv, ScanInv, ShutdownInv, GuardInv
<1>4. QED  BY <1>1, <1>2, <1>3 DEF IInv

\* A step that leaves the statuses, the workers and the counters alone keeps
\* the counters exact.
LEMMA CountUntouched ==
    ASSUME CountExact, UNCHANGED <<count, status, home>>
    PROVE  CountExact'
BY DEF CountExact, Counted, Given

\* A step that moves no connection in or out of what a counter counts keeps the
\* counters exact.
LEMMA CountKept ==
    ASSUME CountExact, UNCHANGED <<count, home>>,
           \A w \in Workers : Counted(w)' = Counted(w)
    PROVE  CountExact'
BY DEF CountExact

-----------------------------------------------------------------------------
(* Every step preserves the invariant: first the steps that leave the         *)
(* connections alone.                                                         *)

\* The main thread's steps, which start, stop and join the workers.
LEMMA MainStep ==
    ASSUME IInv,
           SpawnThread \/ SpawnFails \/ Serve \/ StopWorker \/ MainStop \/ Join \/ Joined
    PROVE  IInv'
<1> USE DEF IInv, connVars, loopVars, workerVars
<1> DEFINE Untouched == UNCHANGED <<loopVars, connVars, current, exited>>
<1>1. Untouched
    BY DEF SpawnThread, SpawnFails, Serve, StopWorker, MainStop, Join, Joined
<1>2. TypeOK' /\ ShutdownInv'
    <2> USE <1>1 DEF TypeOK, ShutdownInv, Phases
    <2>1. CASE SpawnThread
        BY <2>1 DEF SpawnThread, PoolSize
    <2>2. CASE SpawnFails
        BY <2>2 DEF SpawnFails
    <2>3. CASE Serve
        BY <2>3 DEF Serve
    <2>4. CASE StopWorker
        BY <2>4 DEF StopWorker, ToStop, Workers
    <2>5. CASE MainStop
        BY <2>5 DEF MainStop
    <2>6. CASE Join
        <3>1. next \in Nat /\ threads \in Int /\ next' = next + 1 /\ next < threads
            BY <2>6 DEF Join
        <3>2. UNCHANGED <<phase, threads, guarded, stopped, exited>> /\ phase = "joining"
              /\ exited[next]
            BY <2>6, <1>1 DEF Join, Joinable
        <3>3. \A w \in 0 .. next : w = next \/ w \in 0 .. next - 1
            BY <3>1
        <3>4. \A w \in 0 .. next' - 1 : exited'[w]
            BY <3>1, <3>2, <3>3
        <3>5. TypeOK'
            BY <1>1, <3>1, <3>2
        <3>6. next' <= threads' /\ phase' = "joining"
            BY <3>1, <3>2
        <3> HIDE DEF TypeOK, IInv
        <3>7. ShutdownInv'
            BY <3>4, <3>6
        <3>8. QED  BY <3>5, <3>7
    <2>7. CASE Joined
        BY <2>7 DEF Joined, Running, Workers
    <2>8. QED  BY <2>1, <2>2, <2>3, <2>4, <2>5, <2>6, <2>7
<1>3. BacklogInv'
    BY <1>1 DEF BacklogInv
<1>4. CurrentInv'
    <2>1. threads \in Int /\ threads' \in Int /\ threads <= threads'
        BY DEF TypeOK, SpawnThread, SpawnFails, Serve, StopWorker, MainStop, Join, Joined
    <2>2. QED  BY <1>1, <2>1 DEF CurrentInv, Running, Workers
<1>5. CountExact'
    BY <1>1, CountUntouched
<1>6. ScanInv'
    <2> HIDE DEF Untouched
    <2>1. phase = "spawning" \/ phase' # "spawning"
        BY DEF SpawnThread, SpawnFails, Serve, StopWorker, MainStop, Join, Joined
    <2>2. phase' = "serving" <=> phase = "serving" \/ Serve
        BY DEF SpawnThread, SpawnFails, Serve, StopWorker, MainStop, Join, Joined
    <2>3. Serve => loop = "start"
        BY DEF ScanInv, Serve, Loops, TypeOK
    <2>4. phase = "serving" => FALSE
        BY DEF SpawnThread, SpawnFails, Serve, StopWorker, MainStop, Join, Joined
    <2>5. QED  BY <1>1, <2>1, <2>2, <2>3, <2>4 DEF ScanInv, Untouched
<1>7. GuardInv'
    BY <1>1 DEF GuardInv, TypeOK, SpawnThread, SpawnFails, Serve, StopWorker, MainStop, Join, Joined
<1>8. QED  BY <1>2, <1>3, <1>4, <1>5, <1>6, <1>7

\* The accept loop's steps up to the accept, which read the counters.
LEMMA ScanLoopStep ==
    ASSUME IInv, BeginScan \/ ScanStep \/ AwaitAccept \/ AcceptError
    PROVE  IInv'
<1> USE DEF IInv, mainVars, connVars, workerVars
<1>1. TypeOK' /\ ScanInv'
    <2> USE DEF TypeOK, Loops, ScanInv
    <2>1. CASE BeginScan
        BY <2>1 DEF BeginScan, Workers
    <2>2. CASE ScanStep
        <3>1. idx \in Workers /\ idx + 1 \in 0 .. NumWorkers
            BY <2>2 DEF ScanStep, Workers
        <3>2. TypeOK'
            <4>1. best' \in Workers /\ bestCount' \in Nat
                BY <2>2, <3>1 DEF ScanStep
            <4>2. freed' \in [Workers -> Nat]
                BY <2>2, <3>1 DEF ScanStep
            <4>3. QED  BY <2>2, <3>1, <4>1, <4>2 DEF ScanStep
        <3>3. phase = "serving" /\ idx' = idx + 1 /\ count' = count
            BY <2>2 DEF ScanStep
        <3>4. count[best'] <= bestCount' /\ bestCount' <= bestCount
              /\ bestCount' <= count[idx]
            BY <2>2, <3>1, <3>3 DEF ScanStep, Fewer
        <3>5. \A w \in 0 .. idx : bestCount' <= count[w] + freed'[w]
            <4> TAKE w \in 0 .. idx
            <4>1. CASE w = idx
                BY <2>2, <3>1, <3>3, <3>4, <4>1 DEF ScanStep
            <4>2. CASE w # idx
                <5>1. w \in 0 .. idx - 1 /\ w \in Workers
                    BY <3>1, <4>2 DEF Workers
                <5>2. bestCount <= count[w] + freed[w]
                    BY <2>2, <3>3, <5>1 DEF ScanStep
                <5>3. freed'[w] = freed[w]
                    BY <2>2, <4>2, <5>1 DEF ScanStep
                <5>4. bestCount' \in Nat /\ count[w] \in Nat /\ freed[w] \in Nat
                    BY <3>2, <5>1
                <5>5. QED  BY <3>4, <5>2, <5>3, <5>4
            <4>3. QED  BY <4>1, <4>2
        <3>6. QED  BY <2>2, <3>2, <3>3, <3>4, <3>5 DEF ScanStep
    <2>3. CASE AwaitAccept
        BY <2>3 DEF AwaitAccept
    <2>4. CASE AcceptError
        BY <2>4 DEF AcceptError
    <2>5. QED  BY <2>1, <2>2, <2>3, <2>4
<1>2. BacklogInv' /\ CurrentInv'
    BY DEF BacklogInv, CurrentInv, Running, BeginScan, ScanStep, AwaitAccept, AcceptError
<1>3. ShutdownInv' /\ GuardInv'
    BY DEF ShutdownInv, GuardInv, Running, BeginScan, ScanStep, AwaitAccept, AcceptError
<1>4. CountExact'
    BY CountUntouched DEF BeginScan, ScanStep, AwaitAccept, AcceptError
<1>5. QED  BY <1>1, <1>2, <1>3, <1>4

\* A worker that suspends a coroutine, or leaves its io_context.
LEMMA ThreadStep ==
    ASSUME IInv, NEW w \in Workers, Suspend(w) \/ WorkerExit(w)
    PROVE  IInv'
<1> USE DEF IInv, mainVars, loopVars, connVars
<1>1. TypeOK'
    BY DEF TypeOK, Suspend, WorkerExit
<1>2. BacklogInv' /\ ScanInv'
    BY DEF BacklogInv, ScanInv, Suspend, WorkerExit
<1>3. CurrentInv'
    BY DEF TypeOK, CurrentInv, Running, Suspend, WorkerExit
<1>4. CountExact'
    BY CountUntouched DEF Suspend, WorkerExit
<1>5. ShutdownInv'
    <2>1. \A v \in Workers : exited[v] => exited'[v]
        BY DEF TypeOK, Suspend, WorkerExit
    <2>2. UNCHANGED <<phase, threads, next>>
        BY DEF Suspend, WorkerExit
    <2>3. \A v \in 0 .. next - 1 : v \in Workers
        BY DEF TypeOK, Workers
    <2>4. QED  BY <2>1, <2>2, <2>3 DEF ShutdownInv, Running
<1>6. GuardInv'
    BY DEF GuardInv, TypeOK, Suspend, WorkerExit
<1>7. QED  BY <1>1, <1>2, <1>3, <1>4, <1>5, <1>6

\* A worker that resumes a connection.
LEMMA ResumeStep ==
    ASSUME IInv, NEW c \in Conns, Resume(c)
    PROVE  IInv'
<1> USE DEF IInv, Resume, mainVars, loopVars, connVars
<1>1. home[c] \in Workers
    BY DEF TypeOK
<1>2. TypeOK'
    BY <1>1 DEF TypeOK
<1>3. BacklogInv' /\ ScanInv' /\ ShutdownInv' /\ GuardInv'
    BY DEF BacklogInv, ScanInv, ShutdownInv, GuardInv, Running
<1>4. CurrentInv'
    BY <1>1 DEF TypeOK, CurrentInv, Running, Free
<1>5. CountExact'
    BY CountUntouched
<1>6. QED  BY <1>2, <1>3, <1>4, <1>5

-----------------------------------------------------------------------------
(* The steps that move a connection from one status to another.              *)

\* A client that connects adds to the backlog and to no worker.
LEMMA ConnectStep ==
    ASSUME IInv, NEW c \in Conns, Connect(c)
    PROVE  IInv'
<1> USE DEF IInv, Connect, mainVars, loopVars, workerVars
<1>1. TypeOK'
    BY DEF TypeOK, Statuses
<1>2. BacklogInv'
    <2>1. Len(backlog') = Len(backlog) + 1 /\ Len(backlog) \in Nat
        BY DEF TypeOK
    <2>2. \A i \in 1 .. Len(backlog) : backlog'[i] = backlog[i] /\ backlog[i] \in Conns
        BY DEF TypeOK
    <2>3. backlog'[Len(backlog) + 1] = c
        BY DEF TypeOK
    <2>4. \A i \in 1 .. Len(backlog) : backlog[i] # c
        BY DEF BacklogInv
    <2>5. \A i \in 1 .. Len(backlog) + 1 :
              i \in 1 .. Len(backlog) \/ i = Len(backlog) + 1
        BY <2>1
    <2>6. QED  BY <2>1, <2>2, <2>3, <2>4, <2>5 DEF BacklogInv, TypeOK
<1>3. CurrentInv'
    BY DEF TypeOK, CurrentInv, Running
<1>4. CountExact'
    <2>1. \A w \in Workers : Counted(w)' = Counted(w)
        BY DEF TypeOK, Counted, Given
    <2>2. QED  BY <2>1, CountKept
<1>5. ScanInv' /\ ShutdownInv' /\ GuardInv'
    BY DEF ScanInv, ShutdownInv, GuardInv, Running
<1>6. QED  BY <1>1, <1>2, <1>3, <1>4, <1>5

\* A connection handed over starts on its worker.
LEMMA StartStep ==
    ASSUME IInv, NEW c \in Conns, Start(c)
    PROVE  IInv'
<1> USE DEF IInv, Start, mainVars, loopVars
<1>1. home[c] \in Workers
    BY DEF TypeOK
<1>2. TypeOK'
    BY <1>1 DEF TypeOK, Statuses
<1>3. BacklogInv'
    <2>1. \A i \in 1 .. Len(backlog) : backlog[i] # c /\ backlog[i] \in Conns
        BY DEF BacklogInv, TypeOK
    <2>2. QED  BY <2>1 DEF BacklogInv, TypeOK
<1>4. CurrentInv'
    BY <1>1 DEF TypeOK, CurrentInv, Running, Free
<1>5. CountExact'
    <2>1. \A w \in Workers : Counted(w)' = Counted(w)
        BY DEF TypeOK, Counted, Given
    <2>2. QED  BY <2>1, CountKept
<1>6. ScanInv' /\ ShutdownInv' /\ GuardInv'
    BY DEF ScanInv, ShutdownInv, GuardInv, Running
<1>7. QED  BY <1>2, <1>3, <1>4, <1>5, <1>6

\* A connection that ends takes itself off its worker's counter, once.
LEMMA FinishStep ==
    ASSUME IInv, NEW v \in Workers, Finish(v)
    PROVE  IInv'
<1> USE DEF IInv, Finish, mainVars, loopVars
<1> DEFINE c == current[v]
<1>1. c \in Conns /\ status[c] = "active" /\ home[c] = v
    BY DEF TypeOK, CurrentInv
<1>2. c \in Counted(v) /\ count[v] = Cardinality(Counted(v))
    BY <1>1 DEF Counted, Given, CountExact
<1>3. IsFiniteSet(Counted(v)) /\ Cardinality(Counted(v)) \in Nat
    BY CountedFinite
<1>4. Cardinality(Counted(v) \ {c}) = count[v] - 1
    BY <1>2, <1>3, FS_RemoveElement
<1>5. count[v] - 1 \in Nat
    <2>1. Cardinality(Counted(v) \ {c}) \in Nat  BY CountedFinite
    <2>2. QED  BY <1>4, <2>1
<1>6. TypeOK'
    BY <1>1, <1>5 DEF TypeOK, Statuses
<1>7. BacklogInv'
    <2>1. \A i \in 1 .. Len(backlog) : backlog[i] # c /\ backlog[i] \in Conns
        BY <1>1 DEF BacklogInv, TypeOK
    <2>2. QED  BY <1>1, <2>1 DEF BacklogInv, TypeOK
<1>8. CurrentInv'
    BY <1>1 DEF TypeOK, CurrentInv, Running
<1>9. CountExact'
    <2> SUFFICES ASSUME NEW w \in Workers
                 PROVE  count'[w] = Cardinality(Counted(w)')
        BY DEF CountExact
    <2>1. CASE w = v
        <3>1. Counted(v)' = Counted(v) \ {c}
            BY <1>1 DEF TypeOK, Counted, Given
        <3>2. count'[v] = count[v] - 1
            BY DEF TypeOK
        <3>3. QED  BY <1>4, <2>1, <3>1, <3>2
    <2>2. CASE w # v
        <3>1. Counted(w)' = Counted(w)
            BY <1>1, <2>2 DEF TypeOK, Counted, Given
        <3>2. count'[w] = count[w]
            BY <2>2 DEF TypeOK
        <3>3. QED  BY <3>1, <3>2 DEF CountExact
    <2>3. QED  BY <2>1, <2>2
<1>10. ScanInv'
    <2>1. count' \in [Workers -> Nat] /\ freed' \in [Workers -> Nat]
        BY <1>6 DEF TypeOK
    <2>2. \A w \in Workers : /\ count'[w] <= count[w]
                             /\ count'[w] + freed'[w] = count[w] + freed[w]
        BY DEF TypeOK
    <2>3. UNCHANGED <<phase, loop, idx, best, bestCount>>
        OBVIOUS
    <2>4. /\ \A w \in 0 .. idx - 1 : w \in Workers
          /\ best \in Workers /\ bestCount \in Nat
          /\ count \in [Workers -> Nat] /\ freed \in [Workers -> Nat]
        BY DEF TypeOK, Workers
    <2> HIDE DEF IInv, Finish
    <2>5. ASSUME phase = "serving", loop \in {"scan", "waiting"}
          PROVE  /\ count'[best] <= bestCount
                 /\ \A w \in 0 .. idx - 1 : bestCount <= count'[w] + freed'[w]
        <3>1. /\ count[best] <= bestCount
              /\ \A w \in 0 .. idx - 1 : bestCount <= count[w] + freed[w]
            BY <2>5 DEF IInv, ScanInv
        <3>2. count'[best] <= bestCount
            BY <2>1, <2>2, <2>4, <3>1
        <3>3. QED  BY <2>2, <2>4, <3>1, <3>2
    <2>6. QED  BY <2>3, <2>5 DEF ScanInv, IInv
<1>11. ShutdownInv' /\ GuardInv'
    BY DEF ShutdownInv, GuardInv, Running
<1>12. QED  BY <1>6, <1>7, <1>8, <1>9, <1>10, <1>11

\* The accept loop charges the connection to the worker it has chosen.
LEMMA AcceptStep ==
    ASSUME IInv, Accept
    PROVE  IInv'
<1> USE DEF IInv, Accept, mainVars, workerVars
<1> DEFINE c == Head(backlog)
<1>1. /\ c \in Conns /\ status[c] = "backlog" /\ home[c] = -1
      /\ Len(backlog) \in Nat \ {0} /\ c = backlog[1]
    BY DEF TypeOK, BacklogInv
<1>2. best \in Workers /\ best # -1
    BY DEF TypeOK, Workers
<1>3. TypeOK'
    <2>1. Tail(backlog) \in Seq(Conns)
        BY DEF TypeOK
    <2>2. count' \in [Workers -> Nat]
        BY <1>2 DEF TypeOK, Charged
    <2>3. QED  BY <1>1, <1>2, <2>1, <2>2 DEF TypeOK, Statuses, Loops
<1>4. BacklogInv'
    <2>1. Len(backlog') = Len(backlog) - 1
        BY <1>1 DEF TypeOK
    <2>2. \A i \in 1 .. Len(backlog') :
              /\ backlog'[i] = backlog[i + 1] /\ i + 1 \in 1 .. Len(backlog)
              /\ backlog[i + 1] \in Conns
        BY <1>1, <2>1 DEF TypeOK
    <2>3. \A i \in 1 .. Len(backlog') : backlog[i + 1] # c
        BY <1>1, <2>2 DEF BacklogInv
    <2>4. \A i \in 1 .. Len(backlog') : status'[backlog'[i]] = "backlog"
        BY <1>1, <2>2, <2>3 DEF BacklogInv, TypeOK
    <2>5. \A i, j \in 1 .. Len(backlog') : backlog'[i] = backlog'[j] => i = j
        <3> TAKE i, j \in 1 .. Len(backlog')
        <3>1. backlog[i + 1] = backlog[j + 1] => i + 1 = j + 1
            BY <2>2 DEF BacklogInv
        <3>2. QED  BY <2>1, <2>2, <3>1
    <2>6. QED  BY <2>4, <2>5 DEF BacklogInv
<1>5. CurrentInv'
    BY <1>1 DEF TypeOK, CurrentInv, Running
<1>6. CountExact'
    <2> SUFFICES ASSUME NEW w \in Workers
                 PROVE  count'[w] = Cardinality(Counted(w)')
        BY DEF CountExact
    <2>1. CASE w = best
        <3>1. Counted(best)' = Counted(best) \cup {c} /\ c \notin Counted(best)
            BY <1>1, <1>2 DEF TypeOK, Counted, Given
        <3>2. IsFiniteSet(Counted(best))
            BY CountedFinite
        <3>3. Cardinality(Counted(best)') = Cardinality(Counted(best)) + 1
            BY <3>1, <3>2, FS_AddElement
        <3>4. count'[best] = count[best] + 1
            BY <1>2 DEF TypeOK, Charged
        <3>5. QED  BY <1>2, <2>1, <3>3, <3>4 DEF CountExact
    <2>2. CASE w # best
        <3>1. Counted(w)' = Counted(w)
            BY <1>1, <1>2, <2>2 DEF TypeOK, Counted, Given
        <3>2. count'[w] = count[w]
            BY <1>2, <2>2 DEF TypeOK, Charged
        <3>3. QED  BY <3>1, <3>2 DEF CountExact
    <2>3. QED  BY <2>1, <2>2
<1>7. ScanInv' /\ ShutdownInv' /\ GuardInv'
    BY DEF ScanInv, ShutdownInv, GuardInv, Running
<1>8. QED  BY <1>3, <1>4, <1>5, <1>6, <1>7

\* A socket option that fails loses a connection that was charged to nobody.
LEMMA OptionErrorStep ==
    ASSUME IInv, OptionError
    PROVE  IInv'
<1> USE DEF IInv, OptionError, mainVars, workerVars
<1> DEFINE c == Head(backlog)
<1>1. /\ c \in Conns /\ status[c] = "backlog" /\ home[c] = -1
      /\ Len(backlog) \in Nat \ {0} /\ c = backlog[1]
    BY DEF TypeOK, BacklogInv
<1>2. TypeOK'
    <2>1. Tail(backlog) \in Seq(Conns)
        BY DEF TypeOK
    <2>2. QED  BY <1>1, <2>1 DEF TypeOK, Statuses, Loops
<1>3. BacklogInv'
    <2>1. Len(backlog') = Len(backlog) - 1
        BY <1>1 DEF TypeOK
    <2>2. \A i \in 1 .. Len(backlog') :
              /\ backlog'[i] = backlog[i + 1] /\ i + 1 \in 1 .. Len(backlog)
              /\ backlog[i + 1] \in Conns
        BY <1>1, <2>1 DEF TypeOK
    <2>3. \A i \in 1 .. Len(backlog') : backlog[i + 1] # c
        BY <1>1, <2>2 DEF BacklogInv
    <2>4. \A i \in 1 .. Len(backlog') : status'[backlog'[i]] = "backlog"
        BY <1>1, <2>2, <2>3 DEF BacklogInv, TypeOK
    <2>5. \A i, j \in 1 .. Len(backlog') : backlog'[i] = backlog'[j] => i = j
        <3> TAKE i, j \in 1 .. Len(backlog')
        <3>1. backlog[i + 1] = backlog[j + 1] => i + 1 = j + 1
            BY <2>2 DEF BacklogInv
        <3>2. QED  BY <2>1, <2>2, <3>1
    <2>6. QED  BY <2>4, <2>5 DEF BacklogInv
<1>4. CurrentInv'
    BY <1>1 DEF TypeOK, CurrentInv, Running
<1>5. CountExact'
    <2>1. \A w \in Workers : Counted(w)' = Counted(w)
        BY <1>1 DEF TypeOK, Counted, Given, Workers
    <2>2. QED  BY <2>1, CountKept
<1>6. ScanInv' /\ ShutdownInv' /\ GuardInv'
    BY DEF ScanInv, ShutdownInv, GuardInv, Running
<1>7. QED  BY <1>2, <1>3, <1>4, <1>5, <1>6

\* Closing the acceptor touches only connections that have no worker.
LEMMA RefuseStep ==
    ASSUME IInv, Signal \/ Return
    PROVE  IInv'
<1> USE DEF IInv, loopVars, workerVars
<1>1. /\ status' = Refuse /\ backlog' = <<>>
      /\ UNCHANGED <<threads, loopVars, workerVars, count, home, freed>>
    BY DEF Signal, Return
<1>2. \A c \in Conns : status'[c] \in {"spawned", "active", "abandoned"} \/
                       status[c] \in {"spawned", "active", "abandoned"} =>
                           status'[c] = status[c]
    BY <1>1 DEF Refuse
<1>3. TypeOK'
    <2>1. status' \in [Conns -> Statuses]
        BY <1>1 DEF TypeOK, Refuse, Statuses
    <2>2. \A c \in Conns :
              home[c] = -1 <=> status'[c] \in {"idle", "backlog", "refused", "dropped"}
        BY <1>1 DEF TypeOK, Refuse
    <2>3. /\ phase' \in Phases /\ next' \in 0 .. NumWorkers /\ guarded' \in BOOLEAN
        <3>1. CASE Signal
            <4>1. next' = 0 /\ guarded' \in BOOLEAN /\ phase' = "stopping"
                BY <3>1 DEF Signal
            <4>2. QED  BY <4>1 DEF Phases
        <3>2. CASE Return
            <4>1. next' = next /\ guarded' = guarded /\ phase' = "returned"
                BY <3>2 DEF Return, mainVars
            <4>2. QED  BY <4>1 DEF TypeOK, Phases
        <3>3. QED  BY <3>1, <3>2
    <2>4. backlog' \in Seq(Conns)
        BY <1>1
    <2>5. QED  BY <1>1, <2>1, <2>2, <2>3, <2>4 DEF TypeOK
<1>4. BacklogInv'
    BY <1>1 DEF BacklogInv
<1>5. CurrentInv'
    BY <1>1, <1>2 DEF TypeOK, CurrentInv, Running
<1>6. CountExact'
    <2>1. \A w \in Workers : Counted(w)' = Counted(w)
        BY <1>1, <1>2 DEF Counted, Given
    <2>2. QED  BY <1>1, <2>1, CountKept
<1>7. ScanInv'
    BY <1>1 DEF Signal, Return, ScanInv
<1>8. ShutdownInv' /\ GuardInv'
    BY <1>1 DEF Signal, Return, mainVars, ShutdownInv, GuardInv, Running
<1>9. QED  BY <1>3, <1>4, <1>5, <1>6, <1>7, <1>8

\* The teardown destroys what the workers have left.
LEMMA DestroyStep ==
    ASSUME IInv, Destroy
    PROVE  IInv'
<1> USE DEF IInv, Destroy, loopVars, workerVars
<1> DEFINE Cut == {c \in Given(next) : status[c] = "active"}
<1>1. next \in Workers
    BY DEF TypeOK, Workers
<1>2. /\ Cut \subseteq Counted(next) /\ IsFiniteSet(Counted(next))
      /\ Cardinality(Counted(next) \ Cut) \in Nat
    BY CountedFinite DEF Counted
<1>3. Cardinality(Counted(next) \ Cut) = count[next] - Cardinality(Cut)
    <2>1. Counted(next) \cap Cut = Cut
        BY <1>2
    <2>2. count[next] = Cardinality(Counted(next))
        BY <1>1 DEF CountExact
    <2> HIDE DEF Cut
    <2>3. Cardinality(Counted(next) \ Cut) =
              Cardinality(Counted(next)) - Cardinality(Counted(next) \cap Cut)
        BY <1>2, FS_Difference
    <2>4. QED  BY <2>1, <2>2, <2>3
<1>4. count' = [count EXCEPT ![next] = Cardinality(Counted(next) \ Cut)]
    BY <1>1, <1>3 DEF TypeOK
<1>5. status' \in [Conns -> Statuses]
    BY DEF TypeOK, Statuses
<1>6. \A c \in Conns : status'[c] # status[c] =>
          /\ home[c] = next
          /\ \/ status[c] = "active" /\ status'[c] = "cut"
             \/ status[c] = "spawned" /\ status'[c] = "abandoned"
    BY DEF Given
<1>7. TypeOK'
    <2>1. count' \in [Workers -> Nat]
        BY <1>1, <1>2, <1>4 DEF TypeOK
    <2>2. \A c \in Conns :
              home[c] = -1 <=> status'[c] \in {"idle", "backlog", "refused", "dropped"}
        BY <1>1, <1>6 DEF TypeOK, Workers
    <2>3. next' \in 0 .. NumWorkers
        BY <1>1 DEF Workers
    <2>4. QED  BY <1>5, <2>1, <2>2, <2>3 DEF TypeOK
<1>8. \A w \in Workers : current[w] = NoConn
    BY DEF CurrentInv, ShutdownInv
<1>9. CurrentInv'
    BY <1>8 DEF CurrentInv
<1>10. BacklogInv'
    BY <1>6 DEF BacklogInv, TypeOK
<1>11. CountExact'
    <2> SUFFICES ASSUME NEW w \in Workers
                 PROVE  count'[w] = Cardinality(Counted(w)')
        BY DEF CountExact
    <2>1. CASE w = next
        <3>1. \A c \in Given(next) :
                  status'[c] \in {"spawned", "active", "abandoned"} <=>
                      status[c] \in {"spawned", "abandoned"}
            BY DEF Given
        <3>2. Counted(w)' = Counted(next) \ Cut
            BY <2>1, <3>1 DEF Counted, Given
        <3>3. QED  BY <1>1, <1>4, <2>1, <3>2 DEF TypeOK
    <2>2. CASE w # next
        <3>1. Counted(w)' = Counted(w)
            BY <1>6, <2>2 DEF Counted, Given
        <3>2. count'[w] = count[w]
            BY <1>1, <2>2 DEF TypeOK
        <3>3. QED  BY <3>1, <3>2 DEF CountExact
    <2>3. QED  BY <2>1, <2>2
<1>12. ScanInv' /\ ShutdownInv' /\ GuardInv'
    BY DEF ScanInv, ShutdownInv, GuardInv, Running
<1>13. QED  BY <1>7, <1>9, <1>10, <1>11, <1>12

\* An exception that ends the process leaves no thread in a coroutine.
LEMMA AbortStep ==
    ASSUME IInv, NEW v \in Workers, Abort(v)
    PROVE  IInv'
<1> USE DEF IInv, Abort
<1>1. \A c \in Conns : status'[c] \in {"spawned", "active", "abandoned"} \/
                       status[c] \in {"spawned", "active", "abandoned"} =>
                           status'[c] = status[c]
    BY DEF Refuse
<1>2. TypeOK'
    <2>1. status' \in [Conns -> Statuses]
        BY DEF TypeOK, Refuse, Statuses
    <2>2. \A c \in Conns :
              home[c] = -1 <=> status'[c] \in {"idle", "backlog", "refused", "dropped"}
        BY DEF TypeOK, Refuse
    <2>3. backlog' \in Seq(Conns)
        OBVIOUS
    <2>4. QED  BY <2>1, <2>2, <2>3 DEF TypeOK, Phases, Loops
<1>3. BacklogInv' /\ CurrentInv'
    BY DEF BacklogInv, CurrentInv
<1>4. CountExact'
    <2>1. \A w \in Workers : Counted(w)' = Counted(w)
        BY <1>1 DEF Counted, Given
    <2>2. QED  BY <2>1, CountKept
<1>5. ScanInv' /\ ShutdownInv' /\ GuardInv'
    BY DEF ScanInv, ShutdownInv, GuardInv
<1>6. QED  BY <1>2, <1>3, <1>4, <1>5

\* The invariant is inductive.
LEMMA NextInv == IInv /\ [Next]_vars => IInv'
<1> SUFFICES ASSUME IInv, [Next]_vars PROVE IInv'  OBVIOUS
<1>1. CASE SpawnThread \/ SpawnFails \/ Serve \/ StopWorker \/ MainStop \/ Join \/ Joined
    BY <1>1, MainStep
<1>2. CASE BeginScan \/ ScanStep \/ AwaitAccept \/ AcceptError
    BY <1>2, ScanLoopStep
<1>3. CASE Accept  BY <1>3, AcceptStep
<1>4. CASE OptionError  BY <1>4, OptionErrorStep
<1>5. CASE Signal \/ Return  BY <1>5, RefuseStep
<1>6. CASE Destroy  BY <1>6, DestroyStep
<1>7. ASSUME NEW w \in Workers, Worker(w) \/ Abort(w) PROVE IInv'
    BY <1>7, ThreadStep, FinishStep, AbortStep DEF Worker
<1>8. ASSUME NEW c \in Conns, Start(c) \/ Resume(c) \/ Connect(c) PROVE IInv'
    BY <1>8, StartStep, ResumeStep, ConnectStep
<1>9. CASE UNCHANGED vars
    <2> USE <1>9 DEF vars, mainVars, loopVars, connVars, workerVars, IInv
    <2>1. TypeOK'  BY DEF TypeOK
    <2>2. BacklogInv' /\ CurrentInv'  BY DEF BacklogInv, CurrentInv, Running
    <2>3. CountExact'  BY CountUntouched
    <2>4. ScanInv' /\ ShutdownInv' /\ GuardInv'
        BY DEF ScanInv, ShutdownInv, GuardInv, Running
    <2>5. QED  BY <2>1, <2>2, <2>3, <2>4
<1>10. QED
    BY <1>1, <1>2, <1>3, <1>4, <1>5, <1>6, <1>7, <1>8, <1>9
    DEF Next, MainThread, Terminated

\* Every reachable state satisfies the invariant.
THEOREM Invariance == Spec => []IInv
<1>1. QED  BY InitInv, NextInv, PTL DEF Spec

-----------------------------------------------------------------------------
(* What follows from it.                                                     *)

\* Every variable of the server keeps its type.
THEOREM TypeCorrect == Spec => []TypeOK
<1>1. IInv => TypeOK  BY DEF IInv
<1>2. QED  BY <1>1, Invariance, PTL

\* The counters the accept loop balances on are exact at every moment, for any
\* number of workers and connections: the accept loop, the guards of the
\* connections and the destructors at shutdown never lose a slot or give one
\* back twice.
THEOREM CountersExact == Spec => []CountExact
<1>1. IInv => CountExact  BY DEF IInv
<1>2. QED  BY <1>1, Invariance, PTL

\* The worker chosen before the wait in async_accept is off by at most the
\* connections the other workers have closed since they were looked at.
THEOREM StalenessBounded == Spec => []BoundedStaleness
<1>1. IInv => BoundedStaleness
    <2> SUFFICES ASSUME IInv, phase = "serving", loop = "waiting", NEW w \in Workers
                 PROVE  count[best] <= count[w] + freed[w]
        BY DEF BoundedStaleness
    <2>1. w \in 0 .. idx - 1
        BY DEF IInv, ScanInv, Workers
    <2>2. count[best] <= bestCount /\ bestCount <= count[w] + freed[w]
        BY <2>1 DEF IInv, ScanInv
    <2>3. /\ count[best] \in Nat /\ bestCount \in Nat
          /\ count[w] \in Nat /\ freed[w] \in Nat
        BY DEF IInv, TypeOK
    <2>4. QED  BY <2>2, <2>3
<1>2. QED  BY <1>1, Invariance, PTL

\* A startup that fails once the pool holds a thread never gets listen() to
\* return: the threads that are there are kept in run() by guards that outlive
\* the pool.
THEOREM FailedStartupHangs == Spec => [](guarded /\ threads > 0 => phase # "returned")
<1>1. IInv => (guarded /\ threads > 0 => phase # "returned")
    <2> SUFFICES ASSUME IInv, guarded, threads > 0, phase = "returned" PROVE FALSE
        OBVIOUS
    <2>1. 0 \in Workers /\ 0 < threads
        BY DEF Workers, IInv, TypeOK
    <2>2. ~Running(0) /\ ~exited[0]
        BY <2>1 DEF IInv, ShutdownInv, GuardInv
    <2>3. QED  BY <2>1, <2>2 DEF Running
<1>2. QED  BY <1>1, Invariance, PTL

\* No thread is in run() or in a coroutine of an io_context that has been
\* destroyed, whether listen() ends by a signal or by a pool it cannot fill.
THEOREM DestroyedAfterJoin == Spec => []NoUseAfterDestroy
<1>1. IInv => NoUseAfterDestroy
    BY DEF IInv, NoUseAfterDestroy, CurrentInv, ShutdownInv
<1>2. QED  BY <1>1, Invariance, PTL

-----------------------------------------------------------------------------
(* How even the balancing is.                                                *)

\* The guards run on a worker since the scan read its counter are those of
\* connections that it was given and that are closed.
Closed(w) == {c \in Given(w) : status[c] = "closed"}
FreedInv == \A w \in Workers : freed[w] <= Cardinality(Closed(w))

BalanceInv == IInv /\ FreedInv /\ Balanced

\* What a worker has been given is finite, and so are its parts; those still
\* counted and those closed are different connections.
LEMMA PartsFinite ==
    ASSUME NEW w \in Workers
    PROVE  /\ IsFiniteSet(Given(w)) /\ IsFiniteSet(Closed(w))
           /\ Cardinality(Given(w)) \in Nat /\ Cardinality(Closed(w)) \in Nat
           /\ Cardinality(Counted(w)) + Cardinality(Closed(w)) <= Cardinality(Given(w))
<1>1. IsFiniteSet(Given(w)) /\ Cardinality(Given(w)) \in Nat
    <2>1. Given(w) \subseteq Conns  BY DEF Given
    <2>2. QED  BY <2>1, FS_Subset, FS_CardinalityType
<1>2. /\ IsFiniteSet(Counted(w)) /\ Cardinality(Counted(w)) \in Nat
      /\ IsFiniteSet(Closed(w)) /\ Cardinality(Closed(w)) \in Nat
    <2>1. Closed(w) \subseteq Given(w)  BY DEF Closed
    <2>2. QED  BY <1>1, <2>1, CountedFinite, FS_Subset, FS_CardinalityType
<1>3. Counted(w) \cap Closed(w) = {} /\ Counted(w) \cup Closed(w) \subseteq Given(w)
    BY DEF Counted, Closed
<1>4. Cardinality(Counted(w) \cup Closed(w)) = Cardinality(Counted(w)) + Cardinality(Closed(w))
    <2>1. Cardinality(Counted(w) \cap Closed(w)) = 0
        BY <1>3, FS_EmptySet
    <2>2. QED  BY <1>2, <2>1, FS_Union
<1>5. Cardinality(Counted(w) \cup Closed(w)) <= Cardinality(Given(w))
    BY <1>1, <1>3, FS_Subset
<1>6. QED  BY <1>1, <1>2, <1>4, <1>5

\* A step that gives no connection to a worker and runs no guard: nothing is
\* counted that was not, and what is closed stays closed.
Steady ==
    /\ home' = home
    /\ \A w \in Workers : /\ Counted(w)' \subseteq Counted(w)
                          /\ Closed(w) \subseteq Closed(w)'
                          /\ freed'[w] <= freed[w]

\* Every step but an accept and an end is steady.
LEMMA SteadySteps ==
    ASSUME IInv, [Next]_vars, ~Accept, ~(\E w \in Workers : Finish(w))
    PROVE  Steady
<1> USE DEF mainVars, loopVars, connVars, workerVars, vars
<1>1. TypeOK
    BY DEF IInv
<1>2. CASE BeginScan \/ ScanStep
    <2>1. UNCHANGED <<home, status>>
        BY <1>2 DEF BeginScan, ScanStep
    <2>2. PICK v \in Workers : freed' = [freed EXCEPT ![v] = 0]
        BY <1>1, <1>2 DEF BeginScan, ScanStep, Workers, IInv, ScanInv, TypeOK
    <2>3. \A w \in Workers : freed'[w] <= freed[w]
        BY <1>1, <2>2 DEF TypeOK
    <2>4. QED  BY <2>1, <2>3 DEF Steady, Counted, Closed, Given
<1>3. ASSUME UNCHANGED <<home, freed>>,
             \A c \in Conns :
                 \/ status'[c] = status[c]
                 \/ /\ status[c] # "closed"
                    /\ status'[c] \in {"spawned", "active", "abandoned"} =>
                          status[c] \in {"spawned", "active", "abandoned"}
      PROVE  Steady
    <2>1. \A w \in Workers : freed'[w] <= freed[w]
        BY <1>1, <1>3 DEF TypeOK
    <2>2. QED  BY <1>3, <2>1 DEF Steady, Counted, Closed, Given
<1>4. CASE UNCHANGED <<home, freed, status>>
    BY <1>3, <1>4
<1>5. CASE Signal \/ Return \/ \E w \in Workers : Abort(w)
    <2>1. UNCHANGED <<home, freed>> /\ status' = Refuse
        BY <1>5 DEF Signal, Return, Abort
    <2>2. QED  BY <1>3, <2>1 DEF Refuse
<1>6. CASE Destroy
    <2>1. UNCHANGED <<home, freed>>
        BY <1>6 DEF Destroy
    <2>2. \A c \in Conns :
              \/ status'[c] = status[c]
              \/ status[c] = "active" /\ status'[c] = "cut"
              \/ status[c] = "spawned" /\ status'[c] = "abandoned"
        BY <1>6 DEF Destroy
    <2>3. QED  BY <1>3, <2>1, <2>2
<1>7. CASE OptionError
    <2>1. \A c \in Conns :
              \/ status'[c] = status[c]
              \/ status'[c] = "dropped" /\ status[c] = "backlog"
        <3>1. backlog # <<>> /\ status' = [status EXCEPT ![Head(backlog)] = "dropped"]
            BY <1>7 DEF OptionError
        <3>2. Head(backlog) \in Conns /\ status[Head(backlog)] = "backlog"
            BY <1>1, <3>1 DEF IInv, BacklogInv, TypeOK
        <3>3. QED  BY <1>1, <3>1, <3>2 DEF TypeOK
    <2>2. UNCHANGED <<home, freed>>
        BY <1>7 DEF OptionError
    <2>3. QED  BY <1>3, <2>1, <2>2
<1>8. ASSUME NEW c \in Conns, Connect(c) \/ Start(c) PROVE Steady
    <2>1. UNCHANGED <<home, freed>>
        BY <1>8 DEF Connect, Start
    <2>2. \A d \in Conns :
              \/ status'[d] = status[d]
              \/ status[d] = "idle" /\ status'[d] = "backlog"
              \/ status[d] = "spawned" /\ status'[d] = "active"
        BY <1>1, <1>8 DEF Connect, Start, TypeOK
    <2>3. QED  BY <1>3, <2>1, <2>2
<1>9. CASE \/ SpawnThread \/ SpawnFails \/ Serve \/ AwaitAccept \/ StopWorker \/ MainStop
           \/ Join \/ Joined \/ AcceptError
           \/ \E w \in Workers : Suspend(w) \/ WorkerExit(w)
           \/ \E c \in Conns : Resume(c)
           \/ Terminated \/ UNCHANGED vars
    BY <1>4, <1>9 DEF SpawnThread, SpawnFails, Serve, AwaitAccept, StopWorker, MainStop, Join,
       Joined, AcceptError, Suspend, WorkerExit, Resume, Terminated
<1>10. QED
    BY <1>2, <1>5, <1>6, <1>7, <1>8, <1>9 DEF Next, MainThread, Worker

\* A steady step keeps the balance.
LEMMA SteadyBalance ==
    ASSUME BalanceInv, IInv', Steady
    PROVE  FreedInv' /\ Balanced'
<1>1. \A w \in Workers : Given(w)' = Given(w)
    BY DEF Steady, Given
<1>2. FreedInv'
    <2> SUFFICES ASSUME NEW w \in Workers PROVE freed'[w] <= Cardinality(Closed(w)')
        BY DEF FreedInv
    <2>1. /\ IsFiniteSet(Closed(w)') /\ Cardinality(Closed(w)') \in Nat
        <3>1. Closed(w)' \subseteq Given(w)
            BY <1>1 DEF Closed
        <3>2. QED  BY <3>1, PartsFinite, FS_Subset, FS_CardinalityType
    <2>2. Cardinality(Closed(w)) <= Cardinality(Closed(w)')
        BY <2>1, FS_Subset DEF Steady
    <2>3. freed[w] \in Nat /\ freed'[w] \in Nat /\ Cardinality(Closed(w)) \in Nat
        BY PartsFinite DEF BalanceInv, IInv, TypeOK
    <2>4. freed'[w] <= freed[w] /\ freed[w] <= Cardinality(Closed(w))
        BY DEF Steady, BalanceInv, FreedInv
    <2>5. QED  BY <2>1, <2>2, <2>3, <2>4
<1>3. Balanced'
    <2> SUFFICES ASSUME NEW v \in Workers, NEW w \in Workers
                 PROVE  Cardinality(Counted(v)') <= Cardinality(Given(w)') + 1
        BY DEF Balanced
    <2>1. Cardinality(Counted(v)') <= Cardinality(Counted(v)) /\ Cardinality(Counted(v)') \in Nat
        <3>1. Counted(v)' \subseteq Counted(v) /\ IsFiniteSet(Counted(v))
            BY CountedFinite DEF Steady
        <3>2. QED  BY <3>1, FS_Subset, FS_CardinalityType
    <2>2. Cardinality(Counted(v)) <= Cardinality(Given(w)) + 1
        BY DEF BalanceInv, Balanced
    <2>3. Cardinality(Counted(v)) \in Nat /\ Cardinality(Given(w)) \in Nat
        BY CountedFinite, PartsFinite
    <2>4. QED  BY <1>1, <2>1, <2>2, <2>3
<1>4. QED  BY <1>2, <1>3

\* A guard that runs gives back what its connection counted for.
LEMMA FinishBalance ==
    ASSUME BalanceInv, NEW u \in Workers, Finish(u)
    PROVE  FreedInv' /\ Balanced'
<1> DEFINE c == current[u]
<1>1. TypeOK /\ CurrentInv
    BY DEF BalanceInv, IInv
<1>2. c \in Conns /\ status[c] = "active" /\ home[c] = u /\ c \notin Closed(u)
    BY <1>1 DEF Finish, TypeOK, CurrentInv, Closed
<1>3. home' = home /\ status' = [status EXCEPT ![c] = "closed"]
      /\ freed' = [freed EXCEPT ![u] = @ + 1]
    BY DEF Finish
<1>4. \A w \in Workers : Given(w)' = Given(w) /\ Counted(w)' \subseteq Counted(w)
    BY <1>1, <1>2, <1>3 DEF TypeOK, Given, Counted
<1>5. FreedInv'
    <2> SUFFICES ASSUME NEW w \in Workers PROVE freed'[w] <= Cardinality(Closed(w)')
        BY DEF FreedInv
    <2>1. freed[w] <= Cardinality(Closed(w)) /\ freed[w] \in Nat
        BY <1>1 DEF BalanceInv, FreedInv, TypeOK
    <2>2. CASE w = u
        <3>1. Closed(u)' = Closed(u) \cup {c}
            BY <1>1, <1>2, <1>3 DEF TypeOK, Closed, Given
        <3>2. Cardinality(Closed(u)') = Cardinality(Closed(u)) + 1
            BY <1>2, <3>1, PartsFinite, FS_AddElement
        <3>3. freed'[u] = freed[u] + 1
            BY <1>1, <1>3 DEF TypeOK
        <3>4. Cardinality(Closed(u)) \in Nat
            BY PartsFinite
        <3>5. QED  BY <2>1, <2>2, <3>2, <3>3, <3>4
    <2>3. CASE w # u
        <3>1. Closed(w)' = Closed(w) /\ freed'[w] = freed[w]
            BY <1>1, <1>2, <1>3, <2>3 DEF TypeOK, Closed, Given
        <3>2. QED  BY <2>1, <3>1
    <2>4. QED  BY <2>2, <2>3
<1>6. Balanced'
    <2> SUFFICES ASSUME NEW v \in Workers, NEW w \in Workers
                 PROVE  Cardinality(Counted(v)') <= Cardinality(Given(w)') + 1
        BY DEF Balanced
    <2>1. Cardinality(Counted(v)') <= Cardinality(Counted(v)) /\ Cardinality(Counted(v)') \in Nat
        BY <1>4, CountedFinite, FS_Subset, FS_CardinalityType
    <2>2. Cardinality(Counted(v)) <= Cardinality(Given(w)) + 1
        BY DEF BalanceInv, Balanced
    <2>3. Cardinality(Counted(v)) \in Nat /\ Cardinality(Given(w)) \in Nat
        BY CountedFinite, PartsFinite
    <2>4. QED  BY <1>4, <2>1, <2>2, <2>3
<1>7. QED  BY <1>5, <1>6

\* The worker that is given one more counted no more, when it was chosen, than
\* any other did; and what another has closed since, it had been given.
LEMMA AcceptBalance ==
    ASSUME BalanceInv, Accept
    PROVE  FreedInv' /\ Balanced'
<1> DEFINE c == Head(backlog)
<1>1. TypeOK /\ BacklogInv /\ CountExact /\ ScanInv
    BY DEF BalanceInv, IInv
<1>2. c \in Conns /\ status[c] = "backlog" /\ home[c] = -1 /\ best \in Workers
    BY <1>1 DEF Accept, TypeOK, BacklogInv
<1>3. /\ home' = [home EXCEPT ![c] = best] /\ status' = [status EXCEPT ![c] = "spawned"]
      /\ freed' = freed /\ best' = best
    BY DEF Accept
<1>4. -1 \notin Workers
    BY WorkersAssumption DEF Workers
<1>5. /\ Given(best)' = Given(best) \cup {c} /\ Counted(best)' = Counted(best) \cup {c}
      /\ c \notin Given(best) /\ c \notin Counted(best)
    <2>1. /\ \A d \in Conns : d # c => home'[d] = home[d] /\ status'[d] = status[d]
          /\ home'[c] = best /\ status'[c] = "spawned" /\ best # -1
        BY <1>1, <1>2, <1>3, <1>4 DEF TypeOK
    <2> HIDE DEF c
    <2>2. QED  BY <1>2, <1>3, <2>1 DEF Given, Counted
<1>6. \A w \in Workers : Closed(w)' = Closed(w)
    BY <1>1, <1>2, <1>3, <1>4 DEF TypeOK, Given, Closed
<1>7. \A w \in Workers : w # best => Given(w)' = Given(w) /\ Counted(w)' = Counted(w)
    BY <1>1, <1>2, <1>3, <1>4 DEF TypeOK, Given, Counted
<1>8. FreedInv'
    BY <1>3, <1>6 DEF BalanceInv, FreedInv
<1>9. Balanced'
    <2> SUFFICES ASSUME NEW v \in Workers, NEW w \in Workers
                 PROVE  Cardinality(Counted(v)') <= Cardinality(Given(w)') + 1
        BY DEF Balanced
    <2>1. /\ Cardinality(Counted(v)) <= Cardinality(Given(w)) + 1
          /\ Cardinality(Counted(v)) \in Nat /\ Cardinality(Given(w)) \in Nat
        BY CountedFinite, PartsFinite DEF BalanceInv, Balanced
    <2>2. Cardinality(Given(w)') \in Nat /\ Cardinality(Given(w)) <= Cardinality(Given(w)')
        <3>1. CASE w = best
            <4>1. Given(w)' = Given(w) \cup {c} /\ c \notin Given(w)
                BY <1>3, <1>5, <3>1
            <4>2. Cardinality(Given(w)') = Cardinality(Given(w)) + 1
                BY <4>1, PartsFinite, FS_AddElement
            <4>3. QED  BY <2>1, <4>2
        <3>2. CASE w # best
            BY <1>7, <2>1, <3>2
        <3>3. QED  BY <3>1, <3>2
    <2>3. CASE v = best
        <3>1. Cardinality(Counted(best)') = Cardinality(Counted(best)) + 1
            BY <1>5, CountedFinite, FS_AddElement
        <3>2. Cardinality(Counted(best)) <= Cardinality(Counted(w)) + freed[w]
            <4>1. w \in 0 .. idx - 1 /\ phase = "serving" /\ loop = "waiting"
                BY <1>1 DEF Accept, ScanInv, Workers
            <4>2. count[best] <= bestCount /\ bestCount <= count[w] + freed[w]
                BY <1>1, <4>1 DEF ScanInv
            <4>3. count[best] \in Nat /\ bestCount \in Nat /\ count[w] \in Nat /\ freed[w] \in Nat
                BY <1>1, <1>2 DEF TypeOK
            <4>4. count[best] <= count[w] + freed[w]
                BY <4>2, <4>3
            <4>5. QED  BY <1>1, <1>2, <4>4 DEF CountExact
        <3>3. /\ Cardinality(Counted(w)) + Cardinality(Closed(w)) <= Cardinality(Given(w))
              /\ freed[w] <= Cardinality(Closed(w)) /\ Cardinality(Closed(w)) \in Nat
            BY PartsFinite DEF BalanceInv, FreedInv
        <3>4. /\ freed[w] \in Nat /\ Cardinality(Counted(w)) \in Nat
              /\ Cardinality(Counted(best)) \in Nat
            BY <1>1, CountedFinite DEF TypeOK
        <3>5. Cardinality(Counted(best)) <= Cardinality(Given(w))
            BY <2>1, <3>2, <3>3, <3>4
        <3>6. Cardinality(Counted(v)') = Cardinality(Counted(best)')
            BY <1>3, <2>3
        <3>7. QED  BY <2>1, <2>2, <3>1, <3>4, <3>5, <3>6
    <2>4. CASE v # best
        BY <1>7, <2>1, <2>2, <2>4
    <2>5. QED  BY <2>3, <2>4
<1>10. QED  BY <1>8, <1>9

\* However late the choice is used: no worker ever holds more than one
\* connection above the number any other has been given so far.
THEOREM BalancedAlways == Spec => []Balanced
<1>1. Init => BalanceInv
    <2> SUFFICES ASSUME Init PROVE BalanceInv  OBVIOUS
    <2>1. \A w \in Workers : Counted(w) = {} /\ freed[w] = 0
        BY DEF Init, Counted, Given
    <2>2. FreedInv
        BY <2>1, PartsFinite DEF FreedInv
    <2>3. Balanced
        <3>1. \A w \in Workers : Cardinality(Counted(w)) = 0 /\ Cardinality(Given(w)) \in Nat
            BY <2>1, PartsFinite, FS_EmptySet
        <3>2. QED  BY <3>1 DEF Balanced
    <2>4. QED  BY <2>2, <2>3, InitInv DEF BalanceInv
<1>2. BalanceInv /\ [Next]_vars => BalanceInv'
    <2> SUFFICES ASSUME BalanceInv, [Next]_vars PROVE BalanceInv'  OBVIOUS
    <2>1. IInv /\ IInv'
        BY NextInv DEF BalanceInv
    <2>2. FreedInv' /\ Balanced'
        BY <2>1, SteadySteps, SteadyBalance, FinishBalance, AcceptBalance
    <2>3. QED  BY <2>1, <2>2 DEF BalanceInv
<1>3. BalanceInv => Balanced
    BY DEF BalanceInv
<1>4. QED  BY <1>1, <1>2, <1>3, PTL DEF Spec
=============================================================================
