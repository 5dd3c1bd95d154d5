------------------------------ MODULE Chunked ------------------------------
(***************************************************************************)
(* A chunked streaming route, from the response head handle_connection       *)
(* writes to the end of the connection: the handler coroutine, the writer it *)
(* is given, and the stream the client can make out.                         *)
(***************************************************************************)
EXTENDS Naturals, Sequences

CONSTANT MaxWrites   \* bound: calls of write() by one handler

VARIABLES
    pc,        \* "head", "handler", "returned", "threw" or "closed"
    returned,  \* the handler has returned, and not thrown
    finished,  \* finished_ of the writer
    writes,    \* calls of write() so far
    reset,     \* the client has reset the connection
    wire       \* what has been written: "head", "chunk", "last" (the zero chunk)

vars == <<pc, returned, finished, writes, reset, wire>>

Init ==
    /\ pc = "head" /\ returned = FALSE /\ finished = FALSE
    /\ writes = 0 /\ reset = FALSE /\ wire = <<>>

Reset ==
    /\ ~reset /\ reset' = TRUE
    /\ UNCHANGED <<pc, returned, finished, writes, wire>>

WriteHead ==
    /\ pc = "head"
    /\ IF reset THEN pc' = "closed" /\ UNCHANGED wire
                ELSE pc' = "handler" /\ wire' = <<"head">>
    /\ UNCHANGED <<returned, finished, writes, reset>>

\* Empty data writes nothing: a chunk of no bytes would end the stream.  A
\* failed write throws into the handler.
Write ==
    /\ pc = "handler" /\ writes < MaxWrites
    /\ writes' = writes + 1
    /\ \/ UNCHANGED <<pc, wire>>
       \/ ~reset /\ wire' = Append(wire, "chunk") /\ UNCHANGED pc
       \/ reset /\ pc' = "threw" /\ UNCHANGED wire
    /\ UNCHANGED <<returned, finished, reset>>

\* The flag is set before the write.
Finish ==
    /\ pc = "handler" /\ ~finished
    /\ finished' = TRUE
    /\ IF reset THEN pc' = "threw" /\ UNCHANGED wire
                ELSE wire' = Append(wire, "last") /\ UNCHANGED pc
    /\ UNCHANGED <<returned, writes, reset>>

HandlerReturns ==
    /\ pc = "handler" /\ pc' = "returned" /\ returned' = TRUE
    /\ UNCHANGED <<finished, writes, reset, wire>>

HandlerThrows ==
    /\ pc = "handler" /\ pc' = "threw"
    /\ UNCHANGED <<returned, finished, writes, reset, wire>>

\* co_return, or break to the shutdown of the socket: either way the writer,
\* whose destructor cannot write, is gone and the socket is closed.
Close ==
    /\ pc \in {"returned", "threw"} /\ pc' = "closed"
    /\ UNCHANGED <<returned, finished, writes, reset, wire>>

Closed == pc = "closed" /\ UNCHANGED vars

Next ==
    \/ WriteHead \/ Write \/ Finish \/ HandlerReturns \/ HandlerThrows \/ Close
    \/ Reset \/ Closed

Spec == Init /\ [][Next]_vars

\* "The stream is terminated with a zero-length chunk when the handler returns
\* or finish() is called": the client of a handler that returned finds the end.
StreamTerminated ==
    pc = "closed" /\ returned /\ ~reset =>
        \E k \in 1 .. Len(wire) : wire[k] = "last"
=============================================================================
